---------------------------- MODULE Spec2Model ----------------------------
(***************************************************************************)
(* Model of the EMV / ISO 7816 T=0 analyzer UiEmvAnalyzer::analyze         *)
(* (src/app/analyzer/emv/uiemvanalyzer.cpp).                               *)
(*                                                                         *)
(* The analyzer's members, the locals of analyze() and the captured        *)
(* I/O and RESET sample buffers are the state.  One pass over the capture  *)
(* is the action Analyze (lines 218-293, everything before the loop), one  *)
(* action Step per iteration of the while loop (lines 295-744) and the     *)
(* action Return when the loop ends.                                       *)
(*                                                                         *)
(* Times.  mCurrentEtu is 372/mClkFreq seconds and the code multiplies it  *)
(* by usedSampleRate in double arithmetic.  The model keeps the product    *)
(* as the exact rational 372*rate/clk; the clock and the rates used are    *)
(* such that the ETU is a power of two seconds, every bit position the     *)
(* code rounds is within a rounding error of an integer and every product  *)
(* it truncates is exact in a double.                                      *)
(***************************************************************************)
EXTENDS Integers, Sequences, FiniteSets, TLC

\* ------------------------------------------------------------------ enums
EmvLogicConvention_Auto == "Auto"
EmvLogicConvention_InverseConvention == "Inverse"
EmvLogicConvention_DirectConvention == "Direct"

EmvProtocol_Auto == "Auto"
EmvProtocol_T0 == "T0"
EmvProtocol_T1 == "T1"

STATE_ATR_TS == "ATR_TS"
STATE_ATR_T0 == "ATR_T0"
STATE_ATR_TB1 == "ATR_TB1"
STATE_ATR_TC1 == "ATR_TC1"
STATE_ATR_HISTORICAL_BYTES == "ATR_HISTORICAL_BYTES"
STATE_COMMAND_CLA == "COMMAND_CLA"
STATE_COMMAND_INS == "COMMAND_INS"
STATE_COMMAND_P1 == "COMMAND_P1"
STATE_COMMAND_P2 == "COMMAND_P2"
STATE_COMMAND_P3 == "COMMAND_P3"
STATE_COMMAND_DATA == "COMMAND_DATA"
STATE_RESPONSE_STATUS == "RESPONSE_STATUS"
STATE_RESPONSE_INS == "RESPONSE_INS"
STATE_RESPONSE_C0 == "RESPONSE_C0"
STATE_RESPONSE_DATA == "RESPONSE_DATA"
STATE_DONE == "DONE"

TYPE_CHARACTER_FRAME == "CHARACTER_FRAME"
TYPE_COMMAND_MESSAGE == "COMMAND_MESSAGE"
TYPE_ERROR_GENERIC == "ERROR_GENERIC"
TYPE_ERROR_RATE == "ERROR_RATE"
TYPE_ERROR_PARITY == "ERROR_PARITY"
TYPE_ERROR_TS == "ERROR_TS"
TYPE_ERROR_T0 == "ERROR_T0"
TYPE_ERROR_PROTOCOL == "ERROR_PROTOCOL"
TYPE_ERROR_TB1 == "ERROR_TB1"
TYPE_ERROR_DIRECTION_GUARD_TIME == "ERROR_DIRECTION_GUARD_TIME"

ErrorTypes ==
  { TYPE_ERROR_GENERIC, TYPE_ERROR_RATE, TYPE_ERROR_PARITY, TYPE_ERROR_TS,
    TYPE_ERROR_T0, TYPE_ERROR_PROTOCOL, TYPE_ERROR_TB1,
    TYPE_ERROR_DIRECTION_GUARD_TIME }

TTL_TO_ICC == "TTL_TO_ICC"
ICC_TO_TTL == "ICC_TO_TTL"

\* QString stateLabel(AnalyzerState state)
stateLabel(s) ==
  CASE s = STATE_ATR_TS -> "TS"
    [] s = STATE_ATR_T0 -> "T0"
    [] s = STATE_ATR_TB1 -> "TB1"
    [] s = STATE_ATR_TC1 -> "TC1"
    [] s = STATE_ATR_HISTORICAL_BYTES -> "Historical Byte"
    [] OTHER -> ""

\* ------------------------------------------------------- bytes and times
\* bit i (0 = least significant) of the quint8 b
Bit(b, i) == (b \div (2 ^ i)) % 2

\* the loop "while (n) { n &= (n-1); ++numSetBits; }": the number of set bits
PopCount(b) ==
  Bit(b, 0) + Bit(b, 1) + Bit(b, 2) + Bit(b, 3) + Bit(b, 4) + Bit(b, 5) + Bit(b, 6) + Bit(b, 7)

\* currByte | (bit << shift) on a quint8
OrBit(b, bit, shift) ==
  IF bit = 0 \/ Bit(b, shift) = 1 THEN b ELSE (b + 2 ^ shift) % 256

\* round() of the non-negative rational n/d: halves go away from zero
RoundDiv(n, d) == (2 * n + d) \div (2 * d)

\* the numerator over which mClkFreq divides: mInitialEtu = 372.f / mClkFreq
EtuClocks == 372

\* int minSampleRate = 1 + (1.f / (mInitialEtu * 0.2))
MinSampleRate(clk) == 1 + ((5 * clk) \div EtuClocks)

\* (int)(k * mCurrentEtu * usedSampleRate), k a whole number of ETUs
EtuSamples(k, clk, rate) == (k * EtuClocks * rate) \div clk

\* round((startBitIdx*(1.0/rate) + (bitRank + 0.5)*mCurrentEtu) * rate); the
\* whole number startBitIdx is taken out of the rounding
NextBitPos(start, rank, clk, rate) ==
  start + RoundDiv((2 * rank + 1) * EtuClocks * rate, 2 * clk)

\* round(0.2 * mCurrentEtu * usedSampleRate)
NextBitPosTolerance(clk, rate) == RoundDiv(EtuClocks * rate, 5 * clk)

Abs(x) == IF x < 0 THEN -x ELSE x

\* ------------------------------------------------------ command messages
\* EmvCommandMessage::EmvCommandMessage(); a NULL buffer is the empty sequence
EmvCommandMessage ==
  [ Cla |-> 0, Ins |-> 0, P1 |-> 0, P2 |-> 0, P3 |-> 0, Data |-> << >>,
    Sw1 |-> 255, Sw2 |-> 255, Label |-> "", Case |-> 0, Licc |-> 0,
    ResponseData |-> << >> ]

\* EmvItem(type, value, label, startIdx, stopIdx, dataDirection)
EmvItem(type, value, label, startIdx, stopIdx, dir) ==
  [ type |-> type, value |-> value, msg |-> EmvCommandMessage, label |-> label,
    startIdx |-> startIdx, stopIdx |-> stopIdx, dataDirection |-> dir ]

\* EmvItem::Create(TYPE_COMMAND_MESSAGE, currCommand, label, startIdx, stopIdx, dir)
EmvItemCreate(type, cmd, label, startIdx, stopIdx, dir) ==
  [ type |-> type, value |-> 0, msg |-> cmd, label |-> label,
    startIdx |-> startIdx, stopIdx |-> stopIdx, dataDirection |-> dir ]

\* malloc(n): n bytes whose content is whatever the heap held
Malloc(n, fill) == [ i \in 1..n |-> fill ]


\* ------------------------------------------------------------ the capture
\* A capture is the device's two sample buffers.  The I/O buffer is given by
\* the characters on the line: each has the sample index of the falling edge
\* of its start bit and the nine levels (eight data moments and the parity
\* moment) that follow it, one ETU (spe samples) each; the line idles high.
\* RESET reads 0 before sample rstHigh and 1 from there on, but for the
\* samples rstLow[1] .. rstLow[2] - 1, where it reads 0 again.

\* the hexadecimal byte 0xhl
Hex(h, l) == 16 * h + l

Sum8(f) == f[1] + f[2] + f[3] + f[4] + f[5] + f[6] + f[7] + f[8]

\* The levels a transmitter puts on the line for one byte: direct convention
\* is least significant bit first with high = 1, inverse convention is most
\* significant bit first with low = 1.  The parity level is the one the
\* analyzer accepts (an even number of high levels), inverted when flip.
LineLevels(byte, conv, flip) ==
  LET data == [ k \in 1..8 |->
                  IF conv = EmvLogicConvention_InverseConvention
                    THEN 1 - Bit(byte, 8 - k)
                    ELSE Bit(byte, k - 1) ]
      p == Sum8(data) % 2
  IN  data \o << IF flip THEN 1 - p ELSE p >>

\* one character of a script: the byte, the convention it is sent in, the
\* distance in ETU from the previous start bit (from sample 0 for the first)
\* and whether its parity level is inverted
Ch(b, conv, gap) == [ b |-> b, conv |-> conv, gap |-> gap, flip |-> FALSE ]

RECURSIVE StartOf(_, _, _)
StartOf(script, i, spe) ==
  IF i = 0 THEN 0 ELSE StartOf(script, i - 1, spe) + script[i].gap * spe

\* ETUs of idle line recorded after the start bit of the last character
TailEtu == 12

\* the capture that records script at spe samples per ETU
Record(script, spe) ==
  [ chars   |-> [ i \in 1..Len(script) |->
                    [ start  |-> StartOf(script, i, spe),
                      levels |-> LineLevels(script[i].b, script[i].conv, script[i].flip) ] ],
    spe     |-> spe,
    ioSize  |-> StartOf(script, Len(script), spe) + TailEtu * spe,
    rstSize |-> StartOf(script, Len(script), spe) + TailEtu * spe,
    rstHigh |-> spe,
    rstLow  |-> << 0, 0 >> ]

\* ioData->at(p)
IoAt(cap, p) ==
  LET hit == { i \in 1..Len(cap.chars) :
                 cap.chars[i].start <= p /\ p < cap.chars[i].start + 10 * cap.spe }
  IN  IF hit = {} THEN 1
      ELSE LET c == cap.chars[CHOOSE i \in hit : TRUE]
               slot == (p - c.start) \div cap.spe
           IN  IF slot = 0 THEN 0 ELSE c.levels[slot]

\* a RESET line that always reads 1
RstHigh(cap, p) == 1

\* a mutation of RstAt: RESET stays 1 once it was released
RstAfterRelease(cap, p) == IF p < cap.rstHigh THEN 0 ELSE 1

\* rstData->at(p)
RstAt(cap, p) ==
  IF p < cap.rstHigh \/ (cap.rstLow[1] <= p /\ p < cap.rstLow[2]) THEN 0 ELSE 1


\* content a malloc'ed block may hold before it is written
Garbage == { 0, Hex(12, 13) }

\* ------------------------------------------------------------- the inputs
\* The card clock: 372 * 4096 Hz (about 1.52 MHz), so one ETU is 1/4096 s and
\* a sample rate of spe * 4096 Hz takes spe samples per ETU.
ClkFreq == EtuClocks * 4096
Rate(spe) == spe * 4096

Direct == EmvLogicConvention_DirectConvention
Inverse == EmvLogicConvention_InverseConvention

\* bounds of the generated exchanges: historical bytes in the ATR, bytes of
\* command data and of response data
MaxHist == 1
MaxData == 1

\* ETUs between start bits: of the first character from sample 0, of two
\* characters in the same direction, of two characters across a change of
\* direction
FirstGap == 2
CharGap == 12
SwitchGap == 16

\* bytes sent one after the other in convention conv, the first gap1 ETU
\* after the start bit before it
Run(bytes, conv, gap1) ==
  [ i \in 1..Len(bytes) |-> Ch(bytes[i], conv, IF i = 1 THEN gap1 ELSE CharGap) ]

\* n bytes of payload, the i-th being base + i
Payload(n, base) == [ i \in 1..n |-> base + i ]

\* the ATR of a T=0 card: TS, T0 = 0x6n, TB1 = 0, TC1 = 0, n historical bytes
Atr(conv, n) ==
  Run(<< IF conv = Inverse THEN Hex(3, 15) ELSE Hex(3, 11), Hex(6, n), 0, 0 >>
        \o Payload(n, Hex(8, 0)), conv, FirstGap)

Header(conv, cla, ins, p1, p2, p3) == Run(<< cla, ins, p1, p2, p3 >>, conv, SwitchGap)

\* SELECT without data, answered 90 00
Case1(conv) ==
  Header(conv, 0, Hex(10, 4), 4, 0, 0) \o Run(<< Hex(9, 0), 0 >>, conv, SwitchGap)

\* SELECT with n bytes of data: the card acknowledges with INS, takes the data
\* and answers 90 00
Case3(conv, n) ==
  Header(conv, 0, Hex(10, 4), 4, 0, n)
    \o Run(<< Hex(10, 4) >>, conv, SwitchGap)
    \o Run(Payload(n, Hex(3, 0)), conv, SwitchGap)
    \o Run(<< Hex(9, 0), 0 >>, conv, SwitchGap)

\* READ RECORD answered 6C len, re-issued with P3 = len, then INS, len bytes
\* of response and 90 00
Case2(conv, len) ==
  Header(conv, 0, Hex(11, 2), 1, 12, 0)
    \o Run(<< Hex(6, 12), len >>, conv, SwitchGap)
    \o Header(conv, 0, Hex(11, 2), 1, 12, len)
    \o Run(<< Hex(11, 2) >> \o Payload(len, Hex(4, 0)) \o << Hex(9, 0), 0 >>, conv, SwitchGap)

\* SELECT with n bytes of data answered 61 len, then GET RESPONSE
\* 00 C0 00 00 len, answered C0, len bytes and 90 00
Case4(conv, n, len) ==
  ( IF n = 0 THEN Header(conv, 0, Hex(10, 4), 4, 0, 0)
    ELSE Header(conv, 0, Hex(10, 4), 4, 0, n)
           \o Run(<< Hex(10, 4) >>, conv, SwitchGap)
           \o Run(Payload(n, Hex(3, 0)), conv, SwitchGap) )
    \o Run(<< Hex(6, 1), len >>, conv, SwitchGap)
    \o Header(conv, 0, Hex(12, 0), 0, 0, len)
    \o Run(<< Hex(12, 0) >> \o Payload(len, Hex(5, 0)) \o << Hex(9, 0), 0 >>, conv, SwitchGap)

\* the exchanges, in a fixed order
Commands(conv) ==
  << Case1(conv) >>
    \o [ n \in 1..MaxData |-> Case3(conv, n) ]
    \o [ k \in 1..(MaxData + 1) |-> Case2(conv, k - 1) ]
    \o [ k \in 1..(MaxData + 1) |-> Case4(conv, 0, k - 1) ]
    \o [ k \in 1..(MaxData + 1) |-> Case4(conv, 1, k - 1) ]

\* the part of an ATR the analyzer reads when it is configured with a
\* convention and the protocol T=0: TB1 and TC1
AtrTail(conv) == Run(<< 0, 0 >>, conv, FirstGap)

\* the part it reads when configured with a convention only: T0 onwards
AtrFromT0(conv, n) == Run(<< Hex(6, n), 0, 0 >> \o Payload(n, Hex(8, 0)), conv, FirstGap)

\* the round-trip example of the specification: ATR 3B 60 00 00, then 00 A4 04 00 02,
\* the data 3F 00 and 90 00, with no procedure byte
SelectExample ==
  Run(<< Hex(3, 11), Hex(6, 0), 0, 0 >>, Direct, FirstGap)
    \o Header(Direct, 0, Hex(10, 4), 4, 0, 2)
    \o Run(<< Hex(3, 15), 0 >>, Direct, CharGap)
    \o Run(<< Hex(9, 0), 0 >>, Direct, SwitchGap)

\* faults put into a script at character i: the parity level inverted, the
\* byte replaced by 0xFF, the character sent early (a change of direction
\* after 12 ETU, a character in the same direction after 11)
Flip(script, i) == [ script EXCEPT ![i].flip = TRUE ]
Subst(script, i) == [ script EXCEPT ![i].b = Hex(15, 15) ]
Hurry(script, i) ==
  [ script EXCEPT ![i].gap = IF @ = SwitchGap THEN CharGap ELSE @ - 1 ]

NoFault == [ kind |-> "none", at |-> 0 ]

\* a scenario: the analyzer's configuration, the device's sample rate, the
\* capture, and the script and the fault the capture was made from
Scenario(io, rst, clk, convention, protocol, spe, script, fault) ==
  [ io |-> io, rst |-> rst, clk |-> clk, convention |-> convention,
    protocol |-> protocol, rate |-> Rate(spe), capture |-> Record(script, spe),
    script |-> script, fault |-> fault, passes |-> 1 ]

Plain(convention, protocol, spe, script) ==
  Scenario(0, 1, ClkFreq, convention, protocol, spe, script, NoFault)

Flips(convention, protocol, script) ==
  [ i \in 1..Len(script) |->
      Scenario(0, 1, ClkFreq, convention, protocol, 6, Flip(script, i),
               [ kind |-> "flip", at |-> i ]) ]
Substs(convention, protocol, script) ==
  [ i \in 1..Len(script) |->
      Scenario(0, 1, ClkFreq, convention, protocol, 6, Subst(script, i),
               [ kind |-> "subst", at |-> i ]) ]
Hurries(convention, protocol, script) ==
  [ j \in 1..(Len(script) - 1) |->
      Scenario(0, 1, ClkFreq, convention, protocol, 6, Hurry(script, j + 1),
               [ kind |-> "hurry", at |-> j + 1 ]) ]

\* the concatenation of a sequence of sequences
RECURSIVE Flatten(_)
Flatten(ss) == IF ss = << >> THEN << >> ELSE Head(ss) \o Flatten(Tail(ss))

Conventions ==
  << EmvLogicConvention_Auto, EmvLogicConvention_DirectConvention,
     EmvLogicConvention_InverseConvention >>
Protocols == << EmvProtocol_Auto, EmvProtocol_T0, EmvProtocol_T1 >>

\* convention Auto: the ATR of a direct-convention card with one historical
\* byte, then each exchange; two of them under every configured protocol
AutoScenarios ==
  [ c \in 1..Len(Commands(Direct)) |->
      Plain(EmvLogicConvention_Auto, EmvProtocol_Auto, 6,
            Atr(Direct, 1) \o Commands(Direct)[c]) ]
    \o Flatten([ p \in 1..2 |->
          << Plain(EmvLogicConvention_Auto, Protocols[p + 1], 6,
                   Atr(Direct, 1) \o Case1(Direct)),
             Plain(EmvLogicConvention_Auto, Protocols[p + 1], 6,
                   Atr(Direct, 1) \o Case4(Direct, 1, 1)) >> ])

\* an exchange with command data and one with response data, each character's
\* parity level inverted in turn
ParityScenarios ==
  Flips(EmvLogicConvention_Auto, EmvProtocol_Auto, Atr(Direct, 1) \o Case3(Direct, 1))
    \o Flips(Inverse, EmvProtocol_T0, AtrTail(Inverse) \o Case2(Inverse, 1))

\* a case-4 exchange, each character replaced or hurried in turn
FaultScenarios ==
  Substs(EmvLogicConvention_Auto, EmvProtocol_Auto, Atr(Direct, 1) \o Case4(Direct, 0, 1))
    \o Hurries(EmvLogicConvention_Auto, EmvProtocol_Auto, Atr(Direct, 1) \o Case4(Direct, 0, 1))

\* the other ATRs: no or more historical bytes, an inverse-convention card,
\* and the round-trip example
AtrScenarios ==
  Flatten([ n \in 1..(MaxHist + 1) |->
    << Plain(EmvLogicConvention_Auto, EmvProtocol_Auto, 6, Atr(Direct, n - 1) \o Case1(Direct)),
       Plain(EmvLogicConvention_Auto, EmvProtocol_Auto, 6, Atr(Inverse, n - 1) \o Case1(Inverse)),
       Plain(Direct, EmvProtocol_Auto, 6, AtrFromT0(Direct, n - 1) \o Case1(Direct)),
       Plain(Inverse, EmvProtocol_Auto, 6, AtrFromT0(Inverse, n - 1) \o Case1(Inverse)) >> ])
    \o << Plain(EmvLogicConvention_Auto, EmvProtocol_Auto, 6, SelectExample) >>

\* convention and protocol configured: the capture starts at TB1
FixedScenarios ==
  [ c \in 1..Len(Commands(Direct)) |->
      Plain(Direct, EmvProtocol_T0, 6, AtrTail(Direct) \o Commands(Direct)[c]) ]
    \o
  [ c \in 1..Len(Commands(Inverse)) |->
      Plain(Inverse, EmvProtocol_T0, 6, AtrTail(Inverse) \o Commands(Inverse)[c]) ]
    \o
  << Plain(Direct, EmvProtocol_T1, 6, Atr(Direct, 1) \o Case1(Direct)),
     Plain(Inverse, EmvProtocol_T1, 6, Atr(Direct, 1) \o Case1(Direct)) >>

\* eight samples per ETU, where five positions lie within the tolerance of a bit
WideScenarios ==
  << Plain(EmvLogicConvention_Auto, EmvProtocol_Auto, 8, Atr(Direct, 1) \o Case3(Direct, 1)),
     Plain(Direct, EmvProtocol_T0, 8, AtrTail(Direct) \o Case2(Direct, 1)) >>

\* a sample rate below the minimum: four and five samples per ETU
LowRateScenarios ==
  Flatten([ c \in 1..3 |-> Flatten([ p \in 1..3 |->
    << Plain(Conventions[c], Protocols[p], 4, Atr(Direct, 1) \o Case1(Direct)),
       Plain(Conventions[c], Protocols[p], 5, Atr(Direct, 1) \o Case1(Direct)) >> ]) ])

\* RESET low over the whole capture
HeldInReset(sc) == [ sc EXCEPT !.capture.rstHigh = sc.capture.ioSize ]
ResetScenarios ==
  Flatten([ c \in 1..3 |->
    [ p \in 1..3 |-> HeldInReset(Plain(Conventions[c], Protocols[p], 6, Atr(Direct, 1))) ] ])

\* a signal not selected, the clock not set, a buffer empty or shorter than
\* the other
Unselected(sc) ==
  << [ sc EXCEPT !.io = -1 ], [ sc EXCEPT !.rst = -1 ], [ sc EXCEPT !.clk = -1 ],
     [ sc EXCEPT !.capture.ioSize = 0 ], [ sc EXCEPT !.capture.rstSize = 0 ],
     [ sc EXCEPT !.capture.rstSize = sc.capture.ioSize \div 2 ] >>
PartialScenarios ==
  Unselected(Plain(EmvLogicConvention_Auto, EmvProtocol_Auto, 6, Atr(Direct, 1) \o Case1(Direct)))
    \o Unselected(Plain(Direct, EmvProtocol_T1, 6, Atr(Direct, 1) \o Case1(Direct)))

\* analyze() called twice on the same configuration and capture
Twice(sc) == [ sc EXCEPT !.passes = 2 ]
RerunScenarios ==
  Flatten([ p \in 1..3 |->
    << Twice(Plain(EmvLogicConvention_Auto, Protocols[p], 6, Atr(Direct, 1) \o Case3(Direct, 1))),
       Twice(Plain(EmvLogicConvention_Auto, Protocols[p], 6, Atr(Direct, 1) \o Case2(Direct, 1))),
       Twice(Plain(Direct, Protocols[p], 6, AtrFromT0(Direct, 1) \o Case4(Direct, 0, 1))),
       Twice(Plain(Inverse, Protocols[p], 5, Atr(Direct, 1) \o Case1(Direct))),
       Twice(HeldInReset(Plain(Direct, Protocols[p], 6, Atr(Direct, 1)))) >> ])
    \o << Twice(Plain(EmvLogicConvention_Auto, EmvProtocol_Auto, 6, SelectExample)),
          Twice(Plain(EmvLogicConvention_Auto, EmvProtocol_Auto, 6,
                      Subst(Atr(Direct, 1) \o Case4(Direct, 0, 1), 13))) >>

\* a case-4 exchange whose re-entry header starts with the GET RESPONSE
\* instruction 0xC0 where CLA = 0x00 belongs
ReentryScenarios ==
  << Scenario(0, 1, ClkFreq, EmvLogicConvention_Auto, EmvProtocol_Auto, 6,
              [ (Atr(Direct, 1) \o Case4(Direct, 0, 1)) EXCEPT ![13].b = Hex(12, 0) ],
              [ kind |-> "subst", at |-> 13 ]) >>

\* a SELECT answered 6A 82 (file not found), a status word that is none of
\* 90 00, 6C xx, 61 xx, and then a second SELECT answered 90 00
StatusScenarios ==
  << Scenario(0, 1, ClkFreq, EmvLogicConvention_Auto, EmvProtocol_Auto, 6,
              Atr(Direct, 1) \o Header(Direct, 0, Hex(10, 4), 4, 0, 0)
                \o Run(<< Hex(6, 10), Hex(8, 2) >>, Direct, SwitchGap)
                \o Case1(Direct),
              [ kind |-> "status", at |-> 11 ]) >>

\* READ RECORD answered 6C 01 and re-issued: once with P3 = 02 where the
\* length 01 belongs, once as READ BINARY (INS B0), which the card echoes
Case2Scenarios ==
  << Scenario(0, 1, ClkFreq, EmvLogicConvention_Auto, EmvProtocol_Auto, 6,
              [ (Atr(Direct, 1) \o Case2(Direct, 1)) EXCEPT ![17].b = 2 ],
              [ kind |-> "subst", at |-> 17 ]),
     Scenario(0, 1, ClkFreq, EmvLogicConvention_Auto, EmvProtocol_Auto, 6,
              Atr(Direct, 1) \o Header(Direct, 0, Hex(11, 2), 1, 12, 0)
                \o Run(<< Hex(6, 12), 1 >>, Direct, SwitchGap)
                \o Header(Direct, 0, Hex(11, 0), 1, 12, 1)
                \o Run(<< Hex(11, 0), Hex(4, 1), Hex(9, 0), 0 >>, Direct, SwitchGap),
              [ kind |-> "reissue", at |-> 14 ]) >>

\* the start of the ATR of a card that offers T=1 (T0 = 0xE0), and of one
\* whose T0 = 0x70 is neither
T0Scenarios ==
  << Scenario(0, 1, ClkFreq, EmvLogicConvention_Auto, EmvProtocol_Auto, 6,
              Run(<< Hex(3, 11), Hex(14, 0), 0, 0 >>, Direct, FirstGap),
              [ kind |-> "t0", at |-> 2 ]),
     Scenario(0, 1, ClkFreq, EmvLogicConvention_Auto, EmvProtocol_Auto, 6,
              Run(<< Hex(3, 11), Hex(7, 0), 0, 0 >>, Direct, FirstGap),
              [ kind |-> "t0", at |-> 2 ]) >>

\* RESET reads 0 again for the samples from .. to - 1 counted from the start
\* bit of character i
ResetDrop(sc, i, from, to) ==
  [ sc EXCEPT !.capture.rstLow = << sc.capture.chars[i].start + from,
                                    sc.capture.chars[i].start + to >> ]

\* an ATR during which RESET drops: over the first position at which bit 3 of
\* TS is due, over every position at which bit 3 of T0 is due, and over the
\* falling edge of the start bit of TB1
ResetDropScenarios ==
  LET sc == Scenario(0, 1, ClkFreq, EmvLogicConvention_Auto, EmvProtocol_Auto, 6,
                     Run(<< Hex(3, 11), Hex(6, 1), 0, 0, Hex(8, 1) >>, Direct, FirstGap + 1),
                     [ kind |-> "reset", at |-> 1 ])
  IN  << ResetDrop(sc, 1, 17, 21),
         ResetDrop([ sc EXCEPT !.fault.at = 2 ], 2, 19, 24),
         ResetDrop([ sc EXCEPT !.fault.at = 3 ], 3, -2, 2) >>

\* the scenarios in a fixed order; the device's capture is named by its place
ScenarioTable ==
  AutoScenarios \o ParityScenarios \o FaultScenarios \o AtrScenarios \o FixedScenarios
    \o WideScenarios \o LowRateScenarios \o ResetScenarios \o PartialScenarios
    \o RerunScenarios \o ReentryScenarios \o StatusScenarios \o Case2Scenarios
    \o T0Scenarios \o ResetDropScenarios
ScenarioIds == 1..Len(ScenarioTable)

NoCapture ==
  [ chars |-> << >>, spe |-> 1, ioSize |-> 0, rstSize |-> 0, rstHigh |-> 0,
    rstLow |-> << 0, 0 >> ]

\* ------------------------------------------------------------- the state
VARIABLES
  \* members of UiEmvAnalyzer
  mIoSignalId, mRstSignalId, mClkFreq, mLogicConvention, mProtocol,
  mDeterminedLogicConvention, mDeterminedProtocol, mEmvItems,
  \* the capture device: usedSampleRate() and the two sample buffers
  usedSampleRate, capture,
  \* locals of analyze()
  state, numHistoricalBytes, extraTermToICCGuardTime, ICCToTermGuardTime,
  dataDirection, pos, lastStartBitIdx, startBitIdx, nextStartBitPos, bitRank,
  expectDirectionSwitch, currByte, currCommand, currCommandStartBitIdx,
  currCommandRemainingData, currCommandRemainingResponseData, currIo,
  \* where the program is: "idle" (not in analyze), "loop" (in the while
  \* loop of analyze), "crashed" (aborted on a corrupted heap)
  pc,
  \* auxiliary: whether the analyzer has been configured, the passes completed
  \* since the configuration last changed, the result of the pass before the
  \* current one, and whether a write has landed outside its block
  configured, runs, prev, heapOverflow,
  \* the settings string last written by toSettingsString, the analyzer it was
  \* written from, and what fromSettingsString made of it
  settings, savedFrom, restored,
  \* auxiliary: the number of bytes consumed in RESPONSE_STATUS since the state
  \* machine last consumed a byte in another state
  statusBytes

memberVars ==
  << mIoSignalId, mRstSignalId, mClkFreq, mLogicConvention, mProtocol >>
deviceVars == << usedSampleRate, capture >>
byteVars ==
  << state, numHistoricalBytes, extraTermToICCGuardTime, ICCToTermGuardTime,
     dataDirection, currByte, currCommand, currCommandStartBitIdx,
     currCommandRemainingData, currCommandRemainingResponseData,
     mDeterminedLogicConvention, mDeterminedProtocol, mEmvItems, heapOverflow >>
bitVars ==
  << pos, lastStartBitIdx, startBitIdx, nextStartBitPos, bitRank,
     expectDirectionSwitch, currIo >>
auxVars == << configured, runs, prev >>
settingsVars == << settings, savedFrom, restored >>
vars ==
  << memberVars, deviceVars, byteVars, bitVars, auxVars, settingsVars, statusBytes, pc >>

\* the locals of analyze() as they are declared at lines 238-286
LocalsInit ==
  /\ numHistoricalBytes = 0
  /\ extraTermToICCGuardTime = 0
  /\ ICCToTermGuardTime = 0
  /\ state = STATE_ATR_TS
  /\ dataDirection = ICC_TO_TTL
  /\ pos = 0
  /\ lastStartBitIdx = -1
  /\ startBitIdx = -1
  /\ nextStartBitPos = 0
  /\ bitRank = 0
  /\ expectDirectionSwitch = FALSE
  /\ currByte = 0
  /\ currCommand = EmvCommandMessage
  /\ currCommandStartBitIdx = -1
  /\ currCommandRemainingData = 0
  /\ currCommandRemainingResponseData = 0
  /\ currIo = 1

\* the buffers of the capture the device holds: digitalData(mIoSignalId) and
\* digitalData(mRstSignalId)
Buffers == IF capture = 0 THEN NoCapture ELSE ScenarioTable[capture].capture

\* UiEmvAnalyzer::UiEmvAnalyzer(QWidget *parent), before any capture
Constructed ==
  /\ mIoSignalId = -1
  /\ mRstSignalId = -1
  /\ mClkFreq = -1
  /\ mLogicConvention = EmvLogicConvention_Auto
  /\ mProtocol = EmvProtocol_Auto
  /\ mDeterminedLogicConvention = EmvLogicConvention_Auto
  /\ mDeterminedProtocol = EmvProtocol_Auto
  /\ mEmvItems = << >>
  /\ usedSampleRate = 1
  /\ capture = 0
  /\ LocalsInit
  /\ pc = "idle"
  /\ configured = FALSE
  /\ runs = 0
  /\ prev = [ items |-> << >>, lc |-> EmvLogicConvention_Auto, protocol |-> EmvProtocol_Auto ]
  /\ heapOverflow = FALSE
  /\ settings = << >>
  /\ savedFrom = [ kind |-> "none" ]
  /\ restored = [ kind |-> "none" ]
  /\ statusBytes = 0


\* --------------------------------------------- the byte-level state machine
\* The branch "a valid byte has been read" (lines 357-725) works on the
\* locals below; each state's branch is an operator from the locals L before
\* it to the locals after it.  C holds what the branch only reads:
\* startBitIdx, currDataDirection, the index pos + mCurrentEtu*usedSampleRate
\* and the content of a block malloc returns.
Locals ==
  [ state |-> state, currByte |-> currByte,
    numHistoricalBytes |-> numHistoricalBytes,
    extraTermToICCGuardTime |-> extraTermToICCGuardTime,
    ICCToTermGuardTime |-> ICCToTermGuardTime,
    dataDirection |-> dataDirection,
    currCommand |-> currCommand,
    currCommandStartBitIdx |-> currCommandStartBitIdx,
    currCommandRemainingData |-> currCommandRemainingData,
    currCommandRemainingResponseData |-> currCommandRemainingResponseData,
    mDeterminedLogicConvention |-> mDeterminedLogicConvention,
    mDeterminedProtocol |-> mDeterminedProtocol,
    mEmvItems |-> mEmvItems,
    error |-> FALSE, commandDone |-> FALSE, overflow |-> FALSE ]

\* the block every failed check runs: append the error item, state = STATE_DONE,
\* error = true
ErrorItem(L, C, type, value) ==
  [ L EXCEPT !.mEmvItems = Append(@, EmvItem(type, value, "", C.startBitIdx, -1,
                                               C.currDataDirection)),
             !.state = STATE_DONE,
             !.error = TRUE ]

\* an ATR_TS branch that knows the direct-convention TS only
AtrTsDirectOnly(L, C) ==
  IF L.currByte = Hex(3, 11)
    THEN [ L EXCEPT !.mDeterminedLogicConvention = EmvLogicConvention_DirectConvention,
                    !.state = STATE_ATR_T0 ]
  ELSE ErrorItem(L, C, TYPE_ERROR_TS, 0)

\* an ATR_TS branch that recognizes TS and leaves the convention undetermined
AtrTsUndetermined(L, C) ==
  IF L.currByte = Hex(0, 3)
    THEN [ L EXCEPT !.currByte = Hex(3, 15), !.state = STATE_ATR_T0 ]
  ELSE IF L.currByte = Hex(3, 11)
    THEN [ L EXCEPT !.state = STATE_ATR_T0 ]
  ELSE ErrorItem(L, C, TYPE_ERROR_TS, 0)

\* if (state == STATE_ATR_TS)
AtrTs(L, C) ==
  IF L.currByte = Hex(0, 3)
    THEN [ L EXCEPT !.currByte = Hex(3, 15),
                    !.mDeterminedLogicConvention = EmvLogicConvention_InverseConvention,
                    !.state = STATE_ATR_T0 ]
  ELSE IF L.currByte = Hex(3, 11)
    THEN [ L EXCEPT !.mDeterminedLogicConvention = EmvLogicConvention_DirectConvention,
                    !.state = STATE_ATR_T0 ]
  ELSE ErrorItem(L, C, TYPE_ERROR_TS, 0)

\* an ATR_T0 branch that does not tell a T=1 card from an invalid T0
AtrT0OnlyT0(L, C) ==
  IF L.currByte \div 16 = 6
    THEN [ L EXCEPT !.mDeterminedProtocol = EmvProtocol_T0,
                    !.numHistoricalBytes = L.currByte % 16,
                    !.ICCToTermGuardTime = 12,
                    !.state = STATE_ATR_TB1 ]
  ELSE ErrorItem(L, C, TYPE_ERROR_T0, L.currByte)

\* else if (state == STATE_ATR_T0)
AtrT0(L, C) ==
  IF L.currByte \div 16 = 6
    THEN [ L EXCEPT !.mDeterminedProtocol = EmvProtocol_T0,
                    !.numHistoricalBytes = L.currByte % 16,
                    !.ICCToTermGuardTime = 12,
                    !.state = STATE_ATR_TB1 ]
  ELSE IF L.currByte \div 16 = 14
    THEN ErrorItem(L, C, TYPE_ERROR_PROTOCOL, 0)
  ELSE ErrorItem(L, C, TYPE_ERROR_T0, L.currByte)

\* an ATR_TB1 branch that takes any TB1
AtrTb1AnyByte(L, C) ==
  IF L.mDeterminedProtocol = EmvProtocol_T0
    THEN [ L EXCEPT !.state = STATE_ATR_TC1 ]
    ELSE [ L EXCEPT !.state = STATE_DONE ]

\* else if (state == STATE_ATR_TB1)
AtrTb1(L, C) ==
  IF L.currByte = 0
    THEN IF L.mDeterminedProtocol = EmvProtocol_T0
           THEN [ L EXCEPT !.state = STATE_ATR_TC1 ]
           ELSE [ L EXCEPT !.state = STATE_DONE ]
    ELSE ErrorItem(L, C, TYPE_ERROR_TB1, L.currByte)

\* else if (state == STATE_ATR_TC1)
AtrTc1(L, C) ==
  LET L1 == [ L EXCEPT !.extraTermToICCGuardTime = L.currByte ]
  IN  IF L1.numHistoricalBytes > 0
        THEN [ L1 EXCEPT !.state = STATE_ATR_HISTORICAL_BYTES ]
        ELSE [ L1 EXCEPT !.state = STATE_COMMAND_CLA, !.dataDirection = TTL_TO_ICC ]

\* else if (state == STATE_ATR_HISTORICAL_BYTES)
AtrHistoricalBytes(L, C) ==
  LET L1 == [ L EXCEPT !.numHistoricalBytes = (@ + 255) % 256 ]
  IN  IF L1.numHistoricalBytes = 0
        THEN [ L1 EXCEPT !.state = STATE_COMMAND_CLA, !.dataDirection = TTL_TO_ICC ]
        ELSE L1

\* else if (state == STATE_COMMAND_CLA)
CommandCla(L, C) ==
  LET L1 == IF L.currCommand.Case = 0
              THEN [ L EXCEPT !.currCommand = EmvCommandMessage,
                              !.currCommandStartBitIdx = C.startBitIdx ]
              ELSE L
      L2 == IF L1.currCommand.Case = 4
              THEN IF L1.currByte # 0
                     THEN ErrorItem(L1, C, TYPE_ERROR_GENERIC, L1.currByte)
                     ELSE L1
              ELSE [ L1 EXCEPT !.currCommand.Cla = L1.currByte ]
  IN  [ L2 EXCEPT !.state = STATE_COMMAND_INS ]

\* a COMMAND_INS branch that stores the INS of a 0x61 re-entry as well
CommandInsStored(L, C) ==
  LET L1 == [ L EXCEPT !.currCommand.Ins = L.currByte ]
      L2 == IF L.currCommand.Case = 4 /\ L.currByte # Hex(12, 0)
              THEN ErrorItem(L1, C, TYPE_ERROR_GENERIC, L.currByte)
              ELSE L1
  IN  [ L2 EXCEPT !.state = STATE_COMMAND_P1 ]

\* else if (state == STATE_COMMAND_INS)
CommandIns(L, C) ==
  LET L2 == IF L.currCommand.Case = 4
              THEN IF L.currByte # Hex(12, 0)
                     THEN ErrorItem(L, C, TYPE_ERROR_GENERIC, L.currByte)
                     ELSE L
              ELSE [ L EXCEPT !.currCommand.Ins = L.currByte ]
  IN  [ L2 EXCEPT !.state = STATE_COMMAND_P1 ]

\* else if (state == STATE_COMMAND_P1)
CommandP1(L, C) ==
  LET L2 == IF L.currCommand.Case = 4
              THEN IF L.currByte # 0
                     THEN ErrorItem(L, C, TYPE_ERROR_GENERIC, L.currByte)
                     ELSE L
              ELSE [ L EXCEPT !.currCommand.P1 = L.currByte ]
  IN  [ L2 EXCEPT !.state = STATE_COMMAND_P2 ]

\* else if (state == STATE_COMMAND_P2)
CommandP2(L, C) ==
  LET L2 == IF L.currCommand.Case = 4
              THEN IF L.currByte # 0
                     THEN ErrorItem(L, C, TYPE_ERROR_GENERIC, L.currByte)
                     ELSE L
              ELSE [ L EXCEPT !.currCommand.P2 = L.currByte ]
  IN  [ L2 EXCEPT !.state = STATE_COMMAND_P3 ]

\* a COMMAND_P3 branch that waits for no procedure byte: command data follow
\* a P3 > 0 at once
CommandP3NoProcedureByte(L, C) ==
  IF L.currByte > 0
    THEN [ L EXCEPT !.currCommand.P3 = L.currByte,
                    !.currCommand.Data = Malloc(L.currByte, C.fill),
                    !.currCommandRemainingData = L.currByte,
                    !.state = STATE_COMMAND_DATA,
                    !.dataDirection = TTL_TO_ICC ]
    ELSE [ L EXCEPT !.currCommand.P3 = 0,
                    !.currCommandRemainingData = 0,
                    !.state = STATE_RESPONSE_STATUS,
                    !.dataDirection = ICC_TO_TTL ]

\* a COMMAND_P3 branch that sends the case-4 re-entry to RESPONSE_INS, like
\* the case-2 re-entry
CommandP3ReentryToIns(L, C) ==
  LET L4 ==
        IF L.currCommand.Case \in { 2, 4 }
          THEN IF L.currByte # L.currCommand.Licc
                 THEN ErrorItem(L, C, TYPE_ERROR_GENERIC, L.currByte)
                 ELSE [ L EXCEPT !.state = STATE_RESPONSE_INS ]
        ELSE IF L.currByte = 0
          THEN [ L EXCEPT !.currCommand.P3 = 0,
                          !.currCommandRemainingData = 0,
                          !.state = STATE_RESPONSE_STATUS ]
        ELSE [ L EXCEPT !.currCommand.P3 = L.currByte,
                        !.currCommand.Data = Malloc(L.currByte, C.fill),
                        !.currCommandRemainingData = L.currByte,
                        !.state = STATE_RESPONSE_INS ]
  IN  [ L4 EXCEPT !.dataDirection = ICC_TO_TTL ]

\* a COMMAND_P3 branch that takes any P3 on a 0x6C re-entry
CommandP3AnyLength(L, C) ==
  LET L4 ==
        IF L.currCommand.Case = 4
          THEN IF L.currByte # L.currCommand.Licc
                 THEN ErrorItem(L, C, TYPE_ERROR_GENERIC, L.currByte)
                 ELSE [ L EXCEPT !.state = STATE_RESPONSE_C0 ]
          ELSE
            LET L1 == [ L EXCEPT !.currCommand.P3 = L.currByte ]
                L2 == IF L1.currCommand.P3 > 0
                        THEN [ L1 EXCEPT !.currCommand.Data = Malloc(L1.currCommand.P3, C.fill),
                                         !.currCommandRemainingData = L1.currCommand.P3 ]
                        ELSE L1
            IN  IF L2.currCommand.Case = 2
                  THEN [ L2 EXCEPT !.state = STATE_RESPONSE_INS ]
                ELSE IF L2.currCommand.P3 = 0
                  THEN [ L2 EXCEPT !.currCommand.Data = << >>,
                                   !.currCommandRemainingData = 0,
                                   !.state = STATE_RESPONSE_STATUS ]
                ELSE [ L2 EXCEPT !.state = STATE_RESPONSE_INS ]
  IN  [ L4 EXCEPT !.dataDirection = ICC_TO_TTL ]

\* else if (state == STATE_COMMAND_P3)
CommandP3(L, C) ==
  LET L4 ==
        IF L.currCommand.Case = 4
          THEN IF L.currByte # L.currCommand.Licc
                 THEN ErrorItem(L, C, TYPE_ERROR_GENERIC, L.currByte)
                 ELSE [ L EXCEPT !.state = STATE_RESPONSE_C0 ]
          ELSE
            LET L1 == [ L EXCEPT !.currCommand.P3 = L.currByte ]
                L2 == IF L1.currCommand.P3 > 0
                        THEN [ L1 EXCEPT !.currCommand.Data = Malloc(L1.currCommand.P3, C.fill),
                                         !.currCommandRemainingData = L1.currCommand.P3 ]
                        ELSE L1
            IN  IF L2.currCommand.Case = 2
                  THEN IF L2.currCommand.P3 # L2.currCommand.Licc
                         THEN ErrorItem(L2, C, TYPE_ERROR_GENERIC, L2.currByte)
                         ELSE [ L2 EXCEPT !.state = STATE_RESPONSE_INS ]
                ELSE IF L2.currCommand.P3 = 0
                  THEN [ L2 EXCEPT !.currCommand.Data = << >>,
                                   !.currCommandRemainingData = 0,
                                   !.state = STATE_RESPONSE_STATUS ]
                ELSE [ L2 EXCEPT !.state = STATE_RESPONSE_INS ]
  IN  [ L4 EXCEPT !.dataDirection = ICC_TO_TTL ]

\* a status word 90 00 that completes every command without re-entry as Case 1
StatusWordCase1(L, C) ==
  IF L.currCommand.Sw1 = Hex(9, 0) /\ L.currCommand.Sw2 = 0
    THEN [ L EXCEPT !.currCommand.Case = IF @ = 0 THEN 1 ELSE @,
                    !.commandDone = TRUE ]
  ELSE IF L.currCommand.Sw1 = Hex(6, 12) \/ L.currCommand.Sw1 = Hex(6, 1)
    THEN [ L EXCEPT !.currCommand.Case = IF L.currCommand.Sw1 = Hex(6, 12) THEN 2 ELSE 4,
                    !.currCommand.Licc = L.currCommand.Sw2,
                    !.currCommand.ResponseData = Malloc(L.currCommand.Sw2, C.fill),
                    !.currCommandRemainingResponseData = L.currCommand.Sw2,
                    !.currCommand.Sw1 = 255,
                    !.currCommand.Sw2 = 255,
                    !.state = STATE_COMMAND_CLA ]
  ELSE L

\* the three outcomes of a complete status word (lines 590-618)
StatusWord(L, C) ==
  IF L.currCommand.Sw1 = Hex(9, 0) /\ L.currCommand.Sw2 = 0
    THEN [ L EXCEPT !.currCommand.Case =
                        IF @ = 0 /\ L.currCommand.P3 = 0 THEN 1
                        ELSE IF @ = 0 /\ L.currCommand.P3 # 0 THEN 3
                        ELSE @,
                    !.commandDone = TRUE ]
  ELSE IF L.currCommand.Sw1 = Hex(6, 12) \/ L.currCommand.Sw1 = Hex(6, 1)
    THEN [ L EXCEPT !.currCommand.Case = IF L.currCommand.Sw1 = Hex(6, 12) THEN 2 ELSE 4,
                    !.currCommand.Licc = L.currCommand.Sw2,
                    !.currCommand.ResponseData = Malloc(L.currCommand.Sw2, C.fill),
                    !.currCommandRemainingResponseData = L.currCommand.Sw2,
                    !.currCommand.Sw1 = 255,
                    !.currCommand.Sw2 = 255,
                    !.state = STATE_COMMAND_CLA ]
  ELSE L

\* else if (state == STATE_RESPONSE_STATUS)
ResponseStatus(L, C) ==
  IF L.currCommand.Sw1 = 255
    THEN [ L EXCEPT !.currCommand.Sw1 = L.currByte ]
  ELSE IF L.currCommand.Sw2 = 255
    THEN [ StatusWord([ L EXCEPT !.currCommand.Sw2 = L.currByte ], C)
             EXCEPT !.dataDirection = TTL_TO_ICC ]
  ELSE ErrorItem(L, C, TYPE_ERROR_GENERIC, L.currByte)

\* else if (state == STATE_RESPONSE_INS)
ResponseIns(L, C) ==
  IF L.currByte # L.currCommand.Ins
    THEN ErrorItem(L, C, TYPE_ERROR_GENERIC, L.currByte)
  ELSE IF L.currCommand.Case = 2
    THEN [ L EXCEPT !.state = STATE_RESPONSE_DATA ]
  ELSE [ L EXCEPT !.state = STATE_COMMAND_DATA, !.dataDirection = TTL_TO_ICC ]

\* RESPONSE_C0 that takes the procedure byte for the whole response
ResponseC0Skip(L, C) ==
  IF L.currByte # Hex(12, 0)
    THEN ErrorItem(L, C, TYPE_ERROR_GENERIC, L.currByte)
    ELSE [ L EXCEPT !.state = STATE_RESPONSE_STATUS ]

\* else if (state == STATE_RESPONSE_C0)
ResponseC0(L, C) ==
  IF L.currByte # Hex(12, 0)
    THEN ErrorItem(L, C, TYPE_ERROR_GENERIC, L.currByte)
    ELSE [ L EXCEPT !.state = STATE_RESPONSE_DATA ]

\* memcpy(&buf[idx], &currByte, 1) into a block of Len(buf) bytes: a write
\* outside the block leaves the block as it is
Memcpy(buf, idx, byte) ==
  IF 0 <= idx /\ idx < Len(buf) THEN [ buf EXCEPT ![idx + 1] = byte ] ELSE buf

\* the index of the write at line 665
ResponseDataIndex(L) == L.currCommand.Licc - L.currCommandRemainingData

\* else if (state == STATE_RESPONSE_DATA)
ResponseData(L, C) ==
  LET idx == ResponseDataIndex(L)
      L1 == [ L EXCEPT !.currCommand.ResponseData = Memcpy(@, idx, L.currByte),
                       !.overflow = ~ (0 <= idx /\ idx < Len(L.currCommand.ResponseData)),
                       !.currCommandRemainingResponseData = (@ + 255) % 256 ]
  IN  IF L1.currCommandRemainingResponseData = 0
        THEN [ L1 EXCEPT !.state = STATE_RESPONSE_STATUS ]
        ELSE L1

\* a command-data index counted from the length of the response
CommandDataIndexByLicc(L) == L.currCommand.Licc - L.currCommandRemainingData

\* the index of the write at line 674
CommandDataIndex(L) == L.currCommand.P3 - L.currCommandRemainingData

\* else if (state == STATE_COMMAND_DATA)
CommandData(L, C) ==
  LET idx == CommandDataIndex(L)
      L1 == [ L EXCEPT !.currCommand.Data = Memcpy(@, idx, L.currByte),
                       !.overflow = ~ (0 <= idx /\ idx < Len(L.currCommand.Data)),
                       !.currCommandRemainingData = (@ + 255) % 256 ]
  IN  IF L1.currCommandRemainingData = 0
        THEN [ L1 EXCEPT !.state = STATE_RESPONSE_STATUS, !.dataDirection = ICC_TO_TTL ]
        ELSE L1

\* a mutation of CommandLabel: READ RECORD is not told from an unknown command
CommandLabelSelectOnly(cmd) ==
  IF cmd.Cla = 0 /\ cmd.Ins = Hex(10, 4) THEN "SELECT" ELSE "UNKNOWN"

\* the label given to a completed command (lines 685-696)
CommandLabel(cmd) ==
  IF cmd.Cla = 0 /\ cmd.Ins = Hex(10, 4) THEN "SELECT"
  ELSE IF cmd.Cla = 0 /\ cmd.Ins = Hex(11, 2) THEN "READ RECORD"
  ELSE "UNKNOWN"

\* a completed command that takes the start bit of its last status byte, not
\* of its CLA
CommandDoneLate(L, C) ==
  IF L.commandDone
    THEN [ L EXCEPT !.mEmvItems =
                        Append(@, EmvItemCreate(TYPE_COMMAND_MESSAGE,
                                     [ L.currCommand EXCEPT !.Label = CommandLabel(L.currCommand) ],
                                     "Command Message", C.startBitIdx,
                                     C.stopIdx, C.currDataDirection)),
                    !.currCommand = EmvCommandMessage,
                    !.dataDirection = TTL_TO_ICC,
                    !.commandDone = FALSE,
                    !.state = STATE_COMMAND_CLA ]
    ELSE L

\* if (commandDone) { ... } (lines 683-710)
CommandDone(L, C) ==
  IF L.commandDone
    THEN [ L EXCEPT !.mEmvItems =
                        Append(@, EmvItemCreate(TYPE_COMMAND_MESSAGE,
                                     [ L.currCommand EXCEPT !.Label = CommandLabel(L.currCommand) ],
                                     "Command Message", L.currCommandStartBitIdx,
                                     C.stopIdx, C.currDataDirection)),
                    !.currCommand = EmvCommandMessage,
                    !.dataDirection = TTL_TO_ICC,
                    !.commandDone = FALSE,
                    !.state = STATE_COMMAND_CLA ]
    ELSE L

\* the chain of else-ifs on state (lines 362-681)
ByteForState(L, C) ==
  CASE L.state = STATE_ATR_TS -> AtrTs(L, C)
    [] L.state = STATE_ATR_T0 -> AtrT0(L, C)
    [] L.state = STATE_ATR_TB1 -> AtrTb1(L, C)
    [] L.state = STATE_ATR_TC1 -> AtrTc1(L, C)
    [] L.state = STATE_ATR_HISTORICAL_BYTES -> AtrHistoricalBytes(L, C)
    [] L.state = STATE_COMMAND_CLA -> CommandCla(L, C)
    [] L.state = STATE_COMMAND_INS -> CommandIns(L, C)
    [] L.state = STATE_COMMAND_P1 -> CommandP1(L, C)
    [] L.state = STATE_COMMAND_P2 -> CommandP2(L, C)
    [] L.state = STATE_COMMAND_P3 -> CommandP3(L, C)
    [] L.state = STATE_RESPONSE_STATUS -> ResponseStatus(L, C)
    [] L.state = STATE_RESPONSE_INS -> ResponseIns(L, C)
    [] L.state = STATE_RESPONSE_C0 -> ResponseC0(L, C)
    [] L.state = STATE_RESPONSE_DATA -> ResponseData(L, C)
    [] L.state = STATE_COMMAND_DATA -> CommandData(L, C)
    [] OTHER -> L

\* the CharacterFrame of a byte that raised no error (lines 712-720)
CharacterFrame(L, C, stateForByte) ==
  IF L.error = FALSE
    THEN [ L EXCEPT !.mEmvItems =
                        Append(@, EmvItem(TYPE_CHARACTER_FRAME, L.currByte,
                                          stateLabel(stateForByte), C.startBitIdx,
                                          C.stopIdx, C.currDataDirection)) ]
    ELSE L

\* "a valid byte has been read": the state's branch, the completed command,
\* the CharacterFrame
ValidByte(L, C) ==
  CharacterFrame(CommandDone(ByteForState(L, C), C), C, L.state)


\* ------------------------------------------------------------ the actions
\* a pass that keeps the items of the pass before it
KeepItems(items) == items

\* mEmvItems.clear() at the head of analyze()
ClearItems(items) == << >>

\* with the convention left to the ATR the configured protocol is given up:
\* if (mLogicConvention == Auto) { mProtocol = Auto; ... }
ProtocolForPass(convention, protocol) ==
  IF convention = EmvLogicConvention_Auto THEN EmvProtocol_Auto ELSE protocol

\* a pass that always starts at TS
FirstStateFromTs(convention, protocol) == STATE_ATR_TS

\* the state the pass starts in (lines 243-253)
FirstState(convention, protocol) ==
  IF convention = EmvLogicConvention_Auto THEN STATE_ATR_TS
  ELSE IF protocol = EmvProtocol_Auto THEN STATE_ATR_T0
  ELSE STATE_ATR_TB1

\* a pass that raises no error for a configured T=1
ProtocolCheckNone(items, protocol) == items

\* else if (mDeterminedProtocol == T1) { ... }: the unsupported-protocol error,
\* at sample 0
ProtocolCheck(items, protocol) ==
  IF protocol = EmvProtocol_T1
    THEN Append(items, EmvItem(TYPE_ERROR_PROTOCOL, 0, "", 0, -1, ICC_TO_TTL))
    ELSE items

\* if (usedSampleRate < minSampleRate) { ... }: the item takes startBitIdx,
\* which is -1 here
RateCheck(items, rate, clk) ==
  IF rate < MinSampleRate(clk)
    THEN Append(items, EmvItem(TYPE_ERROR_RATE, 0, "", -1, -1, ICC_TO_TTL))
    ELSE items

\* guards that let a pass go on with no I/O signal selected
ShortCircuitBlindToIo ==
  \/ mRstSignalId = -1
  \/ Buffers.ioSize = 0
  \/ Buffers.rstSize = 0
  \/ mClkFreq = -1

\* the early returns of lines 222-233: a signal not selected, a buffer missing
\* or empty, the clock not set
ShortCircuit ==
  \/ mIoSignalId = -1
  \/ mRstSignalId = -1
  \/ Buffers.ioSize = 0
  \/ Buffers.rstSize = 0
  \/ mClkFreq = -1

\* void UiEmvAnalyzer::analyze(), lines 218-293: everything before the loop.
\* A buffer the device does not have (digitalData() == NULL) is a buffer of
\* size 0 here.
Analyze ==
  /\ pc = "idle"
  /\ configured
  /\ runs < ScenarioTable[capture].passes
  /\ prev' = [ items |-> mEmvItems, lc |-> mDeterminedLogicConvention,
               protocol |-> mDeterminedProtocol ]
  /\ UNCHANGED << mIoSignalId, mRstSignalId, mClkFreq, mLogicConvention,
                  deviceVars, configured, heapOverflow, settingsVars >>
  /\ statusBytes' = 0
  /\ IF ShortCircuit
       THEN /\ mEmvItems' = ClearItems(mEmvItems)
            /\ runs' = runs + 1
            /\ UNCHANGED << pc, mProtocol, mDeterminedLogicConvention, mDeterminedProtocol,
                            state, numHistoricalBytes, extraTermToICCGuardTime,
                            ICCToTermGuardTime, dataDirection, currByte, currCommand,
                            currCommandStartBitIdx, currCommandRemainingData,
                            currCommandRemainingResponseData, bitVars >>
       ELSE LET protocol == ProtocolForPass(mLogicConvention, mProtocol)
                first == FirstState(mLogicConvention, mProtocol)
                t1 == protocol = EmvProtocol_T1
                low == usedSampleRate < MinSampleRate(mClkFreq)
                items1 == ProtocolCheck(ClearItems(mEmvItems), protocol)
                items2 == RateCheck(items1, usedSampleRate, mClkFreq)
            IN  /\ mProtocol' = protocol
                /\ mDeterminedLogicConvention' = mLogicConvention
                /\ mDeterminedProtocol' = protocol
                /\ mEmvItems' = items2
                /\ state' = IF t1 \/ low THEN STATE_DONE ELSE first
                /\ ICCToTermGuardTime' = IF protocol = EmvProtocol_T0 THEN 12 ELSE 0
                /\ numHistoricalBytes' = 0
                /\ extraTermToICCGuardTime' = 0
                /\ dataDirection' = ICC_TO_TTL
                /\ pos' = 0
                /\ lastStartBitIdx' = -1
                /\ startBitIdx' = -1
                /\ nextStartBitPos' = 0
                /\ bitRank' = 0
                /\ expectDirectionSwitch' = FALSE
                /\ currByte' = 0
                /\ currCommand' = EmvCommandMessage
                /\ currCommandStartBitIdx' = -1
                \* declared without a value; assigned in COMMAND_P3 and
                \* RESPONSE_STATUS before either is read
                /\ currCommandRemainingData' = 0
                /\ currCommandRemainingResponseData' = 0
                /\ currIo' = IoAt(Buffers, 0)
                /\ pc' = "loop"
                /\ runs' = runs

\* a change of direction allowed as early as a character in the same direction
directionSwitchGuardTimeAsGuardTime == EtuSamples(12, mClkFreq, usedSampleRate)

\* int directionSwitchGuardTime = 16 * mCurrentEtu * device->usedSampleRate()
directionSwitchGuardTime == EtuSamples(16, mClkFreq, usedSampleRate)

\* if (startBitIdx == -1) { ... } (lines 306-326)
StartBit(io) ==
  IF pos >= nextStartBitPos /\ io = 0
    THEN LET violation == /\ expectDirectionSwitch
                          /\ lastStartBitIdx # -1
                          /\ pos - lastStartBitIdx < directionSwitchGuardTime
         IN  /\ startBitIdx' = pos
             /\ nextStartBitPos' = pos + EtuSamples(ICCToTermGuardTime, mClkFreq, usedSampleRate)
             /\ bitRank' = 1
             /\ expectDirectionSwitch' = FALSE
             /\ state' = IF violation THEN STATE_DONE ELSE state
             /\ mEmvItems' = IF violation
                               THEN Append(mEmvItems,
                                      EmvItem(TYPE_ERROR_DIRECTION_GUARD_TIME, 0, "", pos, -1,
                                              dataDirection))
                               ELSE mEmvItems
             /\ UNCHANGED << numHistoricalBytes, extraTermToICCGuardTime, ICCToTermGuardTime,
                             dataDirection, currByte, currCommand, currCommandStartBitIdx,
                             currCommandRemainingData, currCommandRemainingResponseData,
                             mDeterminedLogicConvention, mDeterminedProtocol, heapOverflow,
                             lastStartBitIdx, pc >>
    ELSE UNCHANGED << byteVars, lastStartBitIdx, startBitIdx, nextStartBitPos, bitRank,
                      expectDirectionSwitch, pc >>

\* a mutation of DataBit: least significant bit first at both conventions
DataBitLsbFirst(byte, io, rank, convention) == OrBit(byte, io, rank - 1)

\* one of the eight data bits (lines 333-345)
DataBit(byte, io, rank, convention) ==
  IF convention = EmvLogicConvention_InverseConvention
    THEN OrBit(byte, IF io = 0 THEN 1 ELSE 0, 8 - rank)
    ELSE OrBit(byte, io, rank - 1)

\* a parity check that accepts every character
ParityAny(byte, io) == TRUE

\* a mutation of ParityOk: odd parity
ParityOdd(byte, io) == (io + PopCount(byte)) % 2 = 1

\* the parity check of lines 348-355
ParityOk(byte, io) == (io + PopCount(byte)) % 2 = 0

\* whether position p is one at which bit rank of the character is taken
\* (lines 329-331)
InTolerance(p, start, rank) ==
  Abs(p - NextBitPos(start, rank, mClkFreq, usedSampleRate))
    <= NextBitPosTolerance(mClkFreq, usedSampleRate)

\* the else branch of "if (startBitIdx == -1)" (lines 327-735)
SampleBit(io) ==
  IF ~ InTolerance(pos, startBitIdx, bitRank)
    THEN UNCHANGED << byteVars, lastStartBitIdx, startBitIdx, nextStartBitPos, bitRank,
                      expectDirectionSwitch, pc >>
  ELSE IF bitRank >= 1 /\ bitRank <= 8
    THEN /\ currByte' = DataBit(currByte, io, bitRank, mDeterminedLogicConvention)
         /\ bitRank' = bitRank + 1
         /\ UNCHANGED << state, numHistoricalBytes, extraTermToICCGuardTime,
                         ICCToTermGuardTime, dataDirection, currCommand,
                         currCommandStartBitIdx, currCommandRemainingData,
                         currCommandRemainingResponseData, mDeterminedLogicConvention,
                         mDeterminedProtocol, mEmvItems, heapOverflow,
                         lastStartBitIdx, startBitIdx, nextStartBitPos,
                         expectDirectionSwitch, pc >>
  ELSE IF bitRank = 9
    THEN IF ParityOk(currByte, io)
           THEN \E fill \in Garbage, crash \in BOOLEAN :
                  LET C == [ startBitIdx |-> startBitIdx,
                             currDataDirection |-> dataDirection,
                             stopIdx |-> pos + EtuSamples(1, mClkFreq, usedSampleRate),
                             fill |-> fill ]
                      N == ValidByte(Locals, C)
                  IN  /\ state' = N.state
                      /\ numHistoricalBytes' = N.numHistoricalBytes
                      /\ extraTermToICCGuardTime' = N.extraTermToICCGuardTime
                      /\ ICCToTermGuardTime' = N.ICCToTermGuardTime
                      /\ dataDirection' = N.dataDirection
                      /\ currCommand' = N.currCommand
                      /\ currCommandStartBitIdx' = N.currCommandStartBitIdx
                      /\ currCommandRemainingData' = N.currCommandRemainingData
                      /\ currCommandRemainingResponseData' = N.currCommandRemainingResponseData
                      /\ mDeterminedLogicConvention' = N.mDeterminedLogicConvention
                      /\ mDeterminedProtocol' = N.mDeterminedProtocol
                      /\ mEmvItems' = N.mEmvItems
                      /\ heapOverflow' = (heapOverflow \/ N.overflow)
                      \* a write outside its block may corrupt the heap
                      /\ pc' = IF N.overflow /\ crash THEN "crashed" ELSE pc
                      /\ IF N.error = FALSE
                           THEN /\ lastStartBitIdx' = startBitIdx
                                /\ startBitIdx' = -1
                                /\ bitRank' = 0
                                /\ currByte' = 0
                           ELSE /\ currByte' = N.currByte
                                /\ UNCHANGED << lastStartBitIdx, startBitIdx, bitRank >>
                      /\ expectDirectionSwitch' =
                           IF N.dataDirection # dataDirection THEN TRUE ELSE expectDirectionSwitch
                      /\ UNCHANGED nextStartBitPos
           ELSE /\ state' = STATE_DONE
                /\ mEmvItems' = Append(mEmvItems,
                                  EmvItem(TYPE_ERROR_PARITY, 0, "", startBitIdx, -1, dataDirection))
                /\ UNCHANGED << numHistoricalBytes, extraTermToICCGuardTime,
                                ICCToTermGuardTime, dataDirection, currByte, currCommand,
                                currCommandStartBitIdx, currCommandRemainingData,
                                currCommandRemainingResponseData, mDeterminedLogicConvention,
                                mDeterminedProtocol, heapOverflow,
                                lastStartBitIdx, startBitIdx, nextStartBitPos, bitRank,
                                expectDirectionSwitch, pc >>
  ELSE UNCHANGED << byteVars, lastStartBitIdx, startBitIdx, nextStartBitPos, bitRank,
                    expectDirectionSwitch, pc >>

\* the iteration is one that reaches "a valid byte has been read" (line 357):
\* RESET is 1, a character is in progress, the position is the parity moment
\* and the parity is valid
ValidByteRead ==
  /\ RstAt(Buffers, pos) = 1
  /\ startBitIdx # -1 /\ bitRank = 9
  /\ InTolerance(pos, startBitIdx, bitRank)
  /\ ParityOk(currByte, IoAt(Buffers, pos))

\* one iteration of "while (state != STATE_DONE)" (lines 295-744)
Step ==
  /\ pc = "loop"
  /\ state # STATE_DONE
  /\ pos < Buffers.ioSize
  /\ pos < Buffers.rstSize
  /\ pos' = pos + 1
  /\ UNCHANGED << memberVars, deviceVars, auxVars, settingsVars >>
  /\ statusBytes' = IF ~ ValidByteRead THEN statusBytes
                    ELSE IF state = STATE_RESPONSE_STATUS THEN statusBytes + 1
                    ELSE 0
  /\ IF RstAt(Buffers, pos) = 1
       THEN /\ currIo' = IoAt(Buffers, pos)
            /\ IF startBitIdx = -1
                 THEN StartBit(IoAt(Buffers, pos))
                 ELSE SampleBit(IoAt(Buffers, pos))
       ELSE UNCHANGED << byteVars, lastStartBitIdx, startBitIdx, nextStartBitPos, bitRank,
                         expectDirectionSwitch, currIo, pc >>

\* a mutation of Return: the loop ends on state DONE alone, without the two
\* breaks at the end of the data
ReturnOnlyDone ==
  /\ pc = "loop"
  /\ state = STATE_DONE
  /\ pc' = "idle"
  /\ runs' = runs + 1
  /\ UNCHANGED << memberVars, deviceVars, byteVars, bitVars, configured, prev,
                  settingsVars, statusBytes >>

\* the loop ends (its condition, or a break at line 298 or 299) and analyze
\* returns
Return ==
  /\ pc = "loop"
  /\ \/ state = STATE_DONE
     \/ pos >= Buffers.ioSize
     \/ pos >= Buffers.rstSize
  /\ pc' = "idle"
  /\ runs' = runs + 1
  /\ UNCHANGED << memberVars, deviceVars, byteVars, bitVars, configured, prev,
                  settingsVars, statusBytes >>


\* setIoSignal, setRstSignal, setClkFreq, setLogicConvention and setProtocol
\* called on a new analyzer, and the device holding a capture
Setup(id) ==
  LET sc == ScenarioTable[id] IN
  /\ pc = "idle"
  /\ ~ configured
  /\ mIoSignalId' = sc.io
  /\ mRstSignalId' = sc.rst
  /\ mClkFreq' = sc.clk
  /\ mLogicConvention' = sc.convention
  /\ mProtocol' = sc.protocol
  /\ usedSampleRate' = sc.rate
  /\ capture' = id
  /\ configured' = TRUE
  /\ runs' = 0
  /\ UNCHANGED << byteVars, bitVars, prev, pc, settingsVars, statusBytes >>

\* void UiEmvAnalyzer::setIoSignal(int id)
setIoSignal(id) ==
  /\ pc = "idle" /\ configured /\ runs >= 1 /\ mIoSignalId # id
  /\ mIoSignalId' = id
  /\ runs' = 0
  /\ UNCHANGED << mRstSignalId, mClkFreq, mLogicConvention, mProtocol, deviceVars,
                  byteVars, bitVars, configured, prev, pc, settingsVars, statusBytes >>

\* void UiEmvAnalyzer::setRstSignal(int id)
setRstSignal(id) ==
  /\ pc = "idle" /\ configured /\ runs >= 1 /\ mRstSignalId # id
  /\ mRstSignalId' = id
  /\ runs' = 0
  /\ UNCHANGED << mIoSignalId, mClkFreq, mLogicConvention, mProtocol, deviceVars,
                  byteVars, bitVars, configured, prev, pc, settingsVars, statusBytes >>

\* void UiEmvAnalyzer::setClkFreq(int freq)
setClkFreq(freq) ==
  /\ pc = "idle" /\ configured /\ runs >= 1 /\ mClkFreq # freq
  /\ mClkFreq' = freq
  /\ runs' = 0
  /\ UNCHANGED << mIoSignalId, mRstSignalId, mLogicConvention, mProtocol, deviceVars,
                  byteVars, bitVars, configured, prev, pc, settingsVars, statusBytes >>

\* ------------------------------------------------------ the settings string
\* A QString is the sequence of its characters.
\* const QString UiEmvAnalyzer::signalName = "EMV Analyzer"
signalName == << "E", "M", "V", " ", "A", "n", "a", "l", "y", "z", "e", "r" >>

\* the values of Types::EmvLogicConvention and Types::DataFormat as integers
LogicConventionCode(convention) ==
  CASE convention = EmvLogicConvention_Auto -> 0
    [] convention = EmvLogicConvention_InverseConvention -> 1
    [] convention = EmvLogicConvention_DirectConvention -> 2
LogicConventionOf(code) ==
  CHOOSE c \in { EmvLogicConvention_Auto, EmvLogicConvention_InverseConvention,
                 EmvLogicConvention_DirectConvention } : LogicConventionCode(c) = code
EmvLogicConvention_Num == 3
DataFormatHex == 0
DataFormatDecimal == 1
DataFormatAscii == 2
DataFormatNum == 3

DigitChars == << "0", "1", "2", "3", "4", "5", "6", "7", "8", "9" >>

\* QString("%1").arg(n) for an int n: its decimal digits, "-" first if n < 0
RECURSIVE Decimal(_)
Decimal(n) ==
  IF n < 10 THEN << DigitChars[n + 1] >>
  ELSE Decimal(n \div 10) \o << DigitChars[(n % 10) + 1] >>
Arg(n) == IF n < 0 THEN << "-" >> \o Decimal(-n) ELSE Decimal(n)

\* QString::split(sep): the parts between the separators, empty parts kept
RECURSIVE Split(_, _)
Split(str, sep) ==
  LET at == { i \in 1..Len(str) : str[i] = sep } IN
  IF at = {} THEN << str >>
  ELSE LET i == CHOOSE k \in at : \A j \in at : k <= j
       IN  << SubSeq(str, 1, i - 1) >> \o Split(SubSeq(str, i + 1, Len(str)), sep)

\* QString::toInt(&ok): an optional sign and at least one decimal digit
RECURSIVE DigitsValue(_)
DigitsValue(ds) ==
  IF ds = << >> THEN 0
  ELSE 10 * DigitsValue(SubSeq(ds, 1, Len(ds) - 1))
         + (CHOOSE d \in 0..9 : DigitChars[d + 1] = ds[Len(ds)])
ToInt(str) ==
  LET signed == str # << >> /\ str[1] \in { "-", "+" }
      ds == IF signed THEN Tail(str) ELSE str
      ok == ds # << >> /\ \A i \in 1..Len(ds) : \E d \in 1..10 : DigitChars[d] = ds[i]
  IN  [ ok |-> ok,
        value |-> IF ~ ok THEN 0
                  ELSE IF signed /\ str[1] = "-" THEN - DigitsValue(ds) ELSE DigitsValue(ds) ]

\* QString UiEmvAnalyzer::toSettingsString() const:
\* type;name;IO;RST;CLKFreq;LogicConvention;Format;
ToSettingsString(name, io, rst, clk, lc, format) ==
  signalName \o << ";" >> \o name \o << ";" >> \o Arg(io) \o << ";" >>
    \o Arg(rst) \o << ";" >> \o Arg(clk) \o << ";" >>
    \o Arg(LogicConventionCode(lc)) \o << ";" >> \o Arg(format) \o << ";" >>

NullAnalyzer == [ kind |-> "NULL" ]

\* UiEmvAnalyzer* UiEmvAnalyzer::fromSettingsString(const QString &s); beyond
\* is what list.at(6) yields when the list has the six items line 808 asks for
FromSettingsString(str, beyond) ==
  LET list == Split(str, ";") IN
  IF Len(list) # 6 THEN NullAnalyzer
  ELSE IF list[1] # signalName THEN NullAnalyzer
  ELSE LET ioId == ToInt(list[3])
           rstId == ToInt(list[4])
           clkFreq == ToInt(list[5])
           lc == ToInt(list[6])
           f == ToInt(beyond)
       IN  IF ~ ioId.ok \/ ~ rstId.ok \/ ~ clkFreq.ok \/ ~ lc.ok THEN NullAnalyzer
           ELSE IF lc.value < 0 \/ lc.value >= EmvLogicConvention_Num THEN NullAnalyzer
           ELSE IF ~ f.ok THEN NullAnalyzer
           ELSE IF f.value < 0 \/ f.value >= DataFormatNum THEN NullAnalyzer
           ELSE [ kind |-> "analyzer", name |-> list[2], io |-> ioId.value,
                  rst |-> rstId.value, clk |-> clkFreq.value,
                  lc |-> LogicConventionOf(lc.value), format |-> f.value ]

\* names an analyzer may carry, none with a ";"
Names == { << "E", "M", "V", " ", "0" >>, << "c", "a", "r", "d" >> }
DataFormats == { DataFormatHex, DataFormatDecimal, DataFormatAscii }

\* toSettingsString() called on the analyzer, whose name is name and whose data
\* format is format, once its passes are over
toSettingsString(name, format) ==
  /\ pc = "idle" /\ configured /\ runs >= ScenarioTable[capture].passes
  /\ settings = << >>
  /\ settings' = ToSettingsString(name, mIoSignalId, mRstSignalId, mClkFreq,
                                  mLogicConvention, format)
  /\ savedFrom' = [ kind |-> "analyzer", name |-> name, io |-> mIoSignalId,
                    rst |-> mRstSignalId, clk |-> mClkFreq, lc |-> mLogicConvention,
                    format |-> format ]
  /\ UNCHANGED << memberVars, deviceVars, byteVars, bitVars, auxVars, restored,
                  statusBytes, pc >>

\* fromSettingsString(s) called on the string toSettingsString returned
fromSettingsString ==
  /\ settings # << >>
  /\ restored.kind = "none"
  /\ \E beyond \in { << >>, << "0" >> } :
       restored' = FromSettingsString(settings, beyond)
  /\ UNCHANGED << memberVars, deviceVars, byteVars, bitVars, auxVars, settings,
                  savedFrom, statusBytes, pc >>

Init == Constructed

Next ==
  \/ \E id \in ScenarioIds : Setup(id)
  \/ setIoSignal(-1)
  \/ setRstSignal(-1)
  \/ setClkFreq(-1)
  \/ Analyze
  \/ Step
  \/ Return
  \/ \E name \in Names, format \in DataFormats : toSettingsString(name, format)
  \/ fromSettingsString

Spec == Init /\ [][Next]_vars

\* ---------------------------------------------------------- the properties
\* the scenario the analyzer was set up with
Sc == ScenarioTable[capture]

IsError(item) == item.type \in ErrorTypes
IsFrame(item) == item.type = TYPE_CHARACTER_FRAME
IsCommand(item) == item.type = TYPE_COMMAND_MESSAGE

\* the positions of the list that hold items for which P is true
Where(items, P(_)) == { i \in 1..Len(items) : P(items[i]) }

\* the pass gets past the guards of lines 225-232
Decoding ==
  /\ mIoSignalId # -1 /\ mRstSignalId # -1 /\ mClkFreq # -1
  /\ Buffers.ioSize > 0 /\ Buffers.rstSize > 0

\* a pass over the present configuration is under way or has returned
Started == configured /\ (pc # "idle" \/ runs >= 1)

\* a pass over the present configuration has returned
Returned == configured /\ pc = "idle" /\ runs >= 1

RateOk == usedSampleRate >= MinSampleRate(mClkFreq)

\* C1: every generic error item (the kind a CLA, INS, P1 or P2 mismatch of a
\* case-4 re-entry raises) is the last item of the list and leaves the state
\* machine in DONE.
C1_GenericErrorEndsPass ==
  \A i \in 1..Len(mEmvItems) :
    mEmvItems[i].type = TYPE_ERROR_GENERIC =>
      (i = Len(mEmvItems) /\ state = STATE_DONE)

\* C2: when the sample rate is below the minimum, the list of a pass that got
\* past the guards holds exactly one item, the rate error.
C2_OnlyRateError ==
  (Started /\ Decoding /\ ~ RateOk) =>
    (Len(mEmvItems) = 1 /\ mEmvItems[1].type = TYPE_ERROR_RATE)

\* C3: the round-trip example (ATR 3B 60 00 00, 00 A4 04 00 02, 3F 00, 90 00)
\* decoded under Auto/Auto gives no error item, four ATR frames labelled TS,
\* T0, TB1, TC1, one frame per character and one CommandMessage labelled
\* SELECT with Case 1.
C3_SelectExample ==
  ( /\ Returned /\ Decoding
    /\ mLogicConvention = EmvLogicConvention_Auto
    /\ Sc.protocol = EmvProtocol_Auto
    /\ Sc.script = SelectExample ) =>
    /\ Where(mEmvItems, IsError) = {}
    /\ Cardinality(Where(mEmvItems, IsFrame)) = Len(SelectExample)
    /\ Len(mEmvItems) >= 4
    /\ [ i \in 1..4 |-> mEmvItems[i].label ] = << "TS", "T0", "TB1", "TC1" >>
    /\ \A i \in 1..4 : IsFrame(mEmvItems[i])
    /\ Cardinality(Where(mEmvItems, IsCommand)) = 1
    /\ \A i \in Where(mEmvItems, IsCommand) :
         mEmvItems[i].msg.Label = "SELECT" /\ mEmvItems[i].msg.Case = 1

\* the scenarios whose capture is a case-4 exchange with k response bytes,
\* after the part of the ATR the configuration makes the analyzer read
Case4Ids ==
  [ k \in 1..MaxData |->
      { id \in ScenarioIds :
          LET sc == ScenarioTable[id] IN
          /\ sc.io # -1 /\ sc.rst # -1 /\ sc.clk # -1
          /\ sc.capture.rstSize = sc.capture.ioSize
          /\ sc.capture.rstHigh < sc.capture.ioSize
          /\ sc.rate >= MinSampleRate(sc.clk)
          /\ \E n \in 0..1 :
               \/ /\ sc.convention = EmvLogicConvention_Auto
                  /\ sc.script = Atr(Direct, 1) \o Case4(Direct, n, k)
               \/ /\ sc.convention # EmvLogicConvention_Auto
                  /\ sc.protocol = EmvProtocol_T0
                  /\ sc.script = AtrTail(sc.convention) \o Case4(sc.convention, n, k)
               \/ /\ sc.convention # EmvLogicConvention_Auto
                  /\ sc.protocol = EmvProtocol_Auto
                  /\ sc.script = AtrFromT0(sc.convention, 1) \o Case4(sc.convention, n, k) } ]

C5_T1AnyConvention ==
  (Returned /\ Decoding /\ RateOk /\ Sc.protocol = EmvProtocol_T1) =>
    /\ \E i \in 1..Len(mEmvItems) : mEmvItems[i].type = TYPE_ERROR_PROTOCOL
    /\ Where(mEmvItems, IsFrame) = {}
    /\ Where(mEmvItems, IsCommand) = {}

\* C5 amended: with the protocol T1 and the convention Direct or Inverse
\* configured, the first item of the pass is the unsupported-protocol error
\* at sample 0, the state is DONE and no CharacterFrame and no CommandMessage
\* is produced.
C5_T1FixedConvention ==
  ( /\ Started /\ Decoding
    /\ mLogicConvention # EmvLogicConvention_Auto
    /\ mProtocol = EmvProtocol_T1 ) =>
    /\ Len(mEmvItems) >= 1
    /\ mEmvItems[1].type = TYPE_ERROR_PROTOCOL
    /\ mEmvItems[1].startIdx = 0
    /\ state = STATE_DONE
    /\ Where(mEmvItems, IsFrame) = {}
    /\ Where(mEmvItems, IsCommand) = {}

C5_Witness ==
  /\ Returned /\ Decoding /\ RateOk
  /\ mLogicConvention = EmvLogicConvention_DirectConvention
  /\ mProtocol = EmvProtocol_T1
  /\ Buffers.rstHigh < Buffers.rstSize
  /\ Len(Buffers.chars) > 0
  /\ Len(mEmvItems) = 1
  /\ mEmvItems[1].type = TYPE_ERROR_PROTOCOL

\* RESET reads 0 at every sample of the capture
ResetNeverReleased == Buffers.rstHigh >= Buffers.rstSize

\* C6 as stated: when RESET reads 0 at every sample and the sample rate
\* passes the check, the pass ends with an empty list.
C6_ResetLowEmptyList ==
  (Returned /\ Decoding /\ RateOk /\ ResetNeverReleased) => mEmvItems = << >>

\* C6 amended: when RESET reads 0 at every sample and the sample rate passes
\* the check, no start bit is recognized and no bit is sampled, and the list
\* is empty unless the convention is configured and the protocol is T1, when
\* it holds the unsupported-protocol error alone.
C6_ResetLowNothingSampled ==
  (Started /\ Decoding /\ RateOk /\ ResetNeverReleased) =>
    /\ startBitIdx = -1
    /\ bitRank = 0
    /\ currByte = 0
    /\ mEmvItems =
         IF mLogicConvention # EmvLogicConvention_Auto /\ Sc.protocol = EmvProtocol_T1
           THEN << EmvItem(TYPE_ERROR_PROTOCOL, 0, "", 0, -1, ICC_TO_TTL) >>
           ELSE << >>

C6_Witness ==
  /\ Returned /\ Decoding /\ RateOk /\ ResetNeverReleased
  /\ Len(Buffers.chars) > 0
  /\ pos = Buffers.ioSize
  /\ mEmvItems = << >>

\* what C7 compares of an item: kind, value, label, start and stop index,
\* direction, and of a CommandMessage its header, status word, label, case
\* and lengths
Compared(item) ==
  [ type |-> item.type, value |-> item.value, label |-> item.label,
    startIdx |-> item.startIdx, stopIdx |-> item.stopIdx,
    dataDirection |-> item.dataDirection,
    header |-> << item.msg.Cla, item.msg.Ins, item.msg.P1, item.msg.P2, item.msg.P3 >>,
    status |-> << item.msg.Sw1, item.msg.Sw2 >>,
    command |-> << item.msg.Label, item.msg.Case, item.msg.Licc,
                   Len(item.msg.Data), Len(item.msg.ResponseData) >> ]

ComparedList(items) == [ i \in 1..Len(items) |-> Compared(items[i]) ]

FlipIds == { id \in ScenarioIds : ScenarioTable[id].fault.kind = "flip" }
Unflip(script) == [ i \in 1..Len(script) |-> [ script[i] EXCEPT !.flip = FALSE ] ]
FlipBaseIds ==
  { id \in ScenarioIds :
      /\ ScenarioTable[id].fault = NoFault
      /\ \E f \in FlipIds :
           /\ ScenarioTable[f].convention = ScenarioTable[id].convention
           /\ ScenarioTable[f].protocol = ScenarioTable[id].protocol
           /\ ScenarioTable[f].rate = ScenarioTable[id].rate
           /\ ScenarioTable[f].capture.rstHigh = ScenarioTable[id].capture.rstHigh
           /\ Unflip(ScenarioTable[f].script) = ScenarioTable[id].script }

\* C8: a stream that decodes without error, with the parity level of one
\* character inverted, ends in a parity error at that character's start bit:
\* the error is the last item, the items before it are the frames of the
\* characters before it, and the character itself gets no frame.
C8_ParityFlip ==
  /\ (Returned /\ Decoding /\ capture \in FlipBaseIds) =>
       /\ Where(mEmvItems, IsError) = {}
       /\ Cardinality(Where(mEmvItems, IsFrame)) = Len(Sc.script)
  /\ (Returned /\ Decoding /\ capture \in FlipIds) =>
       LET at == Sc.fault.at
           start == Buffers.chars[at].start
       IN  /\ Len(mEmvItems) = at
           /\ state = STATE_DONE
           /\ mEmvItems[at].type = TYPE_ERROR_PARITY
           /\ mEmvItems[at].startIdx = start
           /\ \A i \in 1..(at - 1) :
                IsFrame(mEmvItems[i]) /\ mEmvItems[i].startIdx = Buffers.chars[i].start

C8_Witness ==
  /\ Returned /\ Decoding /\ capture \in FlipIds
  /\ mLogicConvention = EmvLogicConvention_InverseConvention
  /\ Sc.fault.at = Len(Sc.script)
  /\ mEmvItems[Len(mEmvItems)].type = TYPE_ERROR_PARITY
  /\ mEmvItems[Len(mEmvItems)].startIdx = Buffers.chars[Sc.fault.at].start

\* C9: every item has a start index of 0 or more, and a stop index that is
\* -1 or greater than its start index.
C9_StartAndStop ==
  \A i \in 1..Len(mEmvItems) :
    /\ mEmvItems[i].startIdx >= 0
    /\ (mEmvItems[i].stopIdx = -1 \/ mEmvItems[i].stopIdx > mEmvItems[i].startIdx)

OfCharacter(item) == ~ IsCommand(item) /\ item.type # TYPE_ERROR_RATE

C11_ShortCircuitEmptyList ==
  /\ (configured /\ ~ Decoding) => pc = "idle"
  /\ (Returned /\ ~ Decoding) => mEmvItems = << >>

C11_Witness ==
  /\ Returned /\ ~ Decoding
  /\ prev.items # << >>
  /\ mEmvItems = << >>


\* C12: the analyzer fromSettingsString makes of the string toSettingsString
\* wrote is not null and has the I/O id, RESET id, clock frequency, logic
\* convention and data format of the analyzer the string was written from.
C12_SettingsRoundTrip ==
  restored.kind # "none" =>
    /\ restored.kind = "analyzer"
    /\ restored.io = savedFrom.io
    /\ restored.rst = savedFrom.rst
    /\ restored.clk = savedFrom.clk
    /\ restored.lc = savedFrom.lc
    /\ restored.format = savedFrom.format


\* the step that takes the parity moment of a character whose parity is valid:
\* the byte assembled in currByte is consumed in the present state
Consumes ==
  /\ pc = "loop" /\ state # STATE_DONE
  /\ pos < Buffers.ioSize /\ pos < Buffers.rstSize
  /\ pos' = pos + 1
  /\ RstAt(Buffers, pos) = 1
  /\ startBitIdx # -1 /\ bitRank = 9
  /\ InTolerance(pos, startBitIdx, bitRank)
  /\ ParityOk(currByte, IoAt(Buffers, pos))

\* the items the step appends to the list
Appended == SubSeq(mEmvItems', Len(mEmvItems) + 1, Len(mEmvItems'))

\* C13: a parity-valid byte consumed in ATR_TS, convention Auto and the byte
\* assembled as direct: 0x3B determines the direct convention and appends the
\* one CharacterFrame "TS" with value 0x3B; 0x03 determines the inverse
\* convention and appends the one CharacterFrame "TS" with value 0x3F; both
\* move to ATR_T0; any other byte appends the invalid-TS error and no
\* CharacterFrame, leaves the convention Auto and moves to DONE.
C13_TsByte ==
  [][ (Consumes /\ state = STATE_ATR_TS) =>
        /\ mDeterminedLogicConvention = EmvLogicConvention_Auto
        /\ Len(Appended) = 1
        /\ Appended[1].startIdx = startBitIdx
        /\ IF currByte = Hex(3, 11)
             THEN /\ mDeterminedLogicConvention' = EmvLogicConvention_DirectConvention
                  /\ IsFrame(Appended[1])
                  /\ Appended[1].label = "TS" /\ Appended[1].value = Hex(3, 11)
                  /\ state' = STATE_ATR_T0
           ELSE IF currByte = Hex(0, 3)
             THEN /\ mDeterminedLogicConvention' = EmvLogicConvention_InverseConvention
                  /\ IsFrame(Appended[1])
                  /\ Appended[1].label = "TS" /\ Appended[1].value = Hex(3, 15)
                  /\ state' = STATE_ATR_T0
           ELSE /\ mDeterminedLogicConvention' = EmvLogicConvention_Auto
                /\ Appended[1].type = TYPE_ERROR_TS
                /\ state' = STATE_DONE ]_vars

C13_Witness ==
  /\ mLogicConvention = EmvLogicConvention_Auto
  /\ mDeterminedLogicConvention = EmvLogicConvention_InverseConvention
  /\ state = STATE_ATR_T0
  /\ Len(mEmvItems) = 1
  /\ IsFrame(mEmvItems[1]) /\ mEmvItems[1].label = "TS" /\ mEmvItems[1].value = Hex(3, 15)


\* the scenarios whose capture holds the whole script, unaltered, with RESET
\* released
IntactIds ==
  { id \in ScenarioIds :
      /\ ScenarioTable[id].fault = NoFault
      /\ ScenarioTable[id].capture =
           Record(ScenarioTable[id].script, ScenarioTable[id].capture.spe) }

\* C14: once a pass over a whole ATR and exchange has consumed a T0 byte 0x6N,
\* the frames that follow the T0 frame are TB1, TC1, exactly N frames
\* labelled "Historical Byte" and then the frame of the CLA byte, consumed in
\* COMMAND_CLA (empty label) with direction terminal to ICC; for N = 0 the
\* CLA frame follows the TC1 frame and no frame is labelled "Historical Byte".
C14_HistoricalBytes ==
  \A i \in Where(mEmvItems, LAMBDA item : IsFrame(item) /\ item.label = "T0") :
    (Returned /\ capture \in IntactIds /\ RateOk) =>
      LET N == mEmvItems[i].value % 16 IN
      /\ mEmvItems[i].value \div 16 = 6
      /\ Len(mEmvItems) >= i + 3 + N
      /\ IsFrame(mEmvItems[i + 1]) /\ mEmvItems[i + 1].label = "TB1"
      /\ IsFrame(mEmvItems[i + 2]) /\ mEmvItems[i + 2].label = "TC1"
      /\ Where(mEmvItems, LAMBDA item : IsFrame(item) /\ item.label = "Historical Byte")
           = (i + 3)..(i + 2 + N)
      /\ IsFrame(mEmvItems[i + 3 + N]) /\ mEmvItems[i + 3 + N].label = ""
      /\ mEmvItems[i + 3 + N].dataDirection = TTL_TO_ICC


\* the labels stateLabel gives in the ATR states
AtrLabels == { "TS", "T0", "TB1", "TC1", "Historical Byte" }

\* C15: a character (the items carrying its start-bit index, CommandMessages
\* apart) either appends exactly one CharacterFrame and no error item, or
\* error items and no CharacterFrame; the frame carries the direction expected
\* when its byte was consumed (ICC to terminal under the ATR labels) and a
\* label that is one of the ATR labels or empty.
C15_FramePerCharacter ==
  \A i \in Where(mEmvItems, IsFrame) :
    /\ \A j \in 1..Len(mEmvItems) :
         (j # i /\ ~ IsCommand(mEmvItems[j]))
           => mEmvItems[j].startIdx # mEmvItems[i].startIdx
    /\ mEmvItems[i].label \in AtrLabels \cup { "" }
    /\ mEmvItems[i].label \in AtrLabels => mEmvItems[i].dataDirection = ICC_TO_TTL


\* the items appended for characters, in the order of the list
Characters == SelectSeq(mEmvItems, LAMBDA item : ~ IsCommand(item))

\* C16: in a pass over the present configuration, take a CharacterFrame and
\* the item of the next start bit recognized.
\* The item's direction differs from the frame's exactly when consuming the
\* frame's byte changed the expected direction.  If it differs and the start
\* bit lies fewer than 16 ETU after the frame's, the item is the
\* direction-guard-time error at that start bit, it is the last item and the
\* state is DONE; if it lies 16 ETU or more after it, or the direction is
\* the same, the item is no direction-guard-time error.
C16_DirectionGuard ==
  \A k \in 1..(Len(Characters) - 1) :
    LET a == Characters[k]
        b == Characters[k + 1]
        switched == b.dataDirection # a.dataDirection
        early == b.startIdx - a.startIdx < (16 * EtuClocks * usedSampleRate) \div mClkFreq
    IN  (Started /\ Decoding /\ IsFrame(a) /\ b.startIdx # a.startIdx) =>
          /\ (switched /\ early) =>
                /\ b.type = TYPE_ERROR_DIRECTION_GUARD_TIME
                /\ k + 1 = Len(Characters)
                /\ state = STATE_DONE
          /\ b.type = TYPE_ERROR_DIRECTION_GUARD_TIME => (switched /\ early)

C16_Witness ==
  /\ Returned
  /\ Len(Characters) >= 2
  /\ Characters[Len(Characters)].type = TYPE_ERROR_DIRECTION_GUARD_TIME
  /\ \E k \in 1..(Len(Characters) - 2) :
       /\ Characters[k + 1].dataDirection # Characters[k].dataDirection
       /\ IsFrame(Characters[k + 1])


\* C17 as stated: a byte consumed in COMMAND_P3 for a fresh command (Case 0)
\* moves to COMMAND_DATA with direction terminal to ICC if it is greater than
\* 0, and to RESPONSE_STATUS with direction ICC to terminal if it is 0.
C17_P3ToCommandData ==
  [][ (Consumes /\ state = STATE_COMMAND_P3 /\ currCommand.Case = 0) =>
        IF currByte > 0
          THEN state' = STATE_COMMAND_DATA /\ dataDirection' = TTL_TO_ICC
          ELSE state' = STATE_RESPONSE_STATUS /\ dataDirection' = ICC_TO_TTL ]_vars

\* C17 amended: for a fresh command a P3 greater than 0 allocates the
\* command-data buffer of P3 bytes and moves to RESPONSE_INS with direction
\* ICC to terminal; the procedure byte equal to INS, consumed there, moves
\* to COMMAND_DATA with direction terminal to ICC, where the k-th byte
\* consumed is stored at index k - 1 of the buffer; a P3 of 0 moves to
\* RESPONSE_STATUS with direction ICC to terminal.
C17_P3ThenProcedureByte ==
  [][ /\ (Consumes /\ state = STATE_COMMAND_P3 /\ currCommand.Case = 0) =>
           /\ Len(Appended) = 1 /\ IsFrame(Appended[1])
           /\ currCommand'.P3 = currByte
           /\ dataDirection' = ICC_TO_TTL
           /\ IF currByte > 0
                THEN /\ state' = STATE_RESPONSE_INS
                     /\ Len(currCommand'.Data) = currByte
                     /\ currCommandRemainingData' = currByte
                ELSE /\ state' = STATE_RESPONSE_STATUS
                     /\ currCommand'.Data = << >>
      /\ (Consumes /\ state = STATE_RESPONSE_INS /\ currCommand.Case = 0
             /\ currByte = currCommand.Ins) =>
           /\ state' = STATE_COMMAND_DATA
           /\ dataDirection' = TTL_TO_ICC
      /\ (Consumes /\ state = STATE_COMMAND_DATA /\ currCommand.Case = 0) =>
           /\ currCommandRemainingData \in 1..currCommand.P3
           /\ currCommand'.Data[currCommand.P3 - currCommandRemainingData + 1] = currByte
           /\ ~ heapOverflow'
           /\ state' = IF currCommandRemainingData = 1 THEN STATE_RESPONSE_STATUS
                                                        ELSE STATE_COMMAND_DATA
    ]_vars

C17_Witness ==
  /\ pc = "loop"
  /\ state = STATE_COMMAND_DATA
  /\ currCommand.Case = 0 /\ currCommand.P3 > 0
  /\ dataDirection = TTL_TO_ICC
  /\ mEmvItems[Len(mEmvItems)].value = currCommand.Ins
  /\ mEmvItems[Len(mEmvItems)].dataDirection = ICC_TO_TTL


\* C18 as stated: whenever the pass is in RESPONSE_INS, the Case of the command
\* in progress is 2 or 4.
C18_ResponseInsOnlyReentry ==
  (pc = "loop" /\ state = STATE_RESPONSE_INS) => currCommand.Case \in { 2, 4 }

\* C18 amended: whenever the pass is in RESPONSE_INS, the expected direction
\* is ICC to terminal and the command in progress is either fresh (Case 0)
\* with P3 > 0, awaiting the procedure byte before its command data, or a
\* 0x6C re-entry (Case 2) whose P3 equals Licc; its Case is never 4: a 0x61
\* re-entry (Case 4) is in RESPONSE_C0 instead.
C18_ResponseInsFreshOrCase2 ==
  /\ (pc = "loop" /\ state = STATE_RESPONSE_INS) =>
       /\ dataDirection = ICC_TO_TTL
       /\ \/ currCommand.Case = 0 /\ currCommand.P3 > 0
          \/ currCommand.Case = 2 /\ currCommand.P3 = currCommand.Licc
  /\ (pc = "loop" /\ state = STATE_RESPONSE_C0) => currCommand.Case = 4

C18_Witness ==
  /\ pc = "loop" /\ state = STATE_RESPONSE_INS
  /\ currCommand.Case = 2 /\ currCommand.Licc > 0


\* C19: no response byte is written outside the response-data buffer, and the
\* response data of every CommandMessage of Case 2 or 4 are the Licc bytes
\* received, in order: the bytes of the Licc CharacterFrames that precede the
\* frame of SW1.
C19_ResponseDataStored ==
  /\ ~ heapOverflow
  /\ pc # "crashed"
  /\ \A i \in Where(mEmvItems, IsCommand) :
       LET m == mEmvItems[i].msg IN
       m.Case \in { 2, 4 } =>
         /\ Len(m.ResponseData) = m.Licc
         /\ \A k \in 1..m.Licc : m.ResponseData[k] = mEmvItems[i - 2 - m.Licc + k].value



\* C20: a parity-valid byte consumed in RESPONSE_STATUS as the first status
\* byte SW1 that is none of 0x90, 0x6C, 0x61 appends a generic error for that
\* byte and moves to DONE.
C20_UnknownSw1IsError ==
  [][ ( /\ Consumes /\ state = STATE_RESPONSE_STATUS
        /\ currCommand.Sw1 = 255
        /\ currByte \notin { Hex(9, 0), Hex(6, 12), Hex(6, 1) } ) =>
        /\ Len(Appended) >= 1
        /\ Appended[1].type = TYPE_ERROR_GENERIC
        /\ Appended[1].startIdx = startBitIdx
        /\ state' = STATE_DONE ]_vars

\* the step that recognizes a start bit (lines 308-312)
Recognized == pc = "loop" /\ startBitIdx = -1 /\ startBitIdx' = pos

\* C21: with the protocol T=0, a start bit is recognized only with no character
\* in progress, RESET 1, I/O 0 and at least 12 ETU after the start bit of the
\* character before it; TB1 after an auto-detected T0 included.
C21_StartBitAfterGuardTime ==
  [][ ( /\ Recognized
        /\ mDeterminedProtocol = EmvProtocol_T0
        /\ lastStartBitIdx # -1 ) =>
        /\ RstAt(Buffers, pos) = 1
        /\ IoAt(Buffers, pos) = 0
        /\ pos - lastStartBitIdx >= EtuSamples(12, mClkFreq, usedSampleRate) ]_vars

\* the number of items at the end of the list that the card sent: in
\* RESPONSE_DATA, the frame of the procedure byte and the frames of the
\* response bytes consumed so far
RECURSIVE FromCardAtEnd(_)
FromCardAtEnd(items) ==
  IF items = << >> \/ items[Len(items)].dataDirection # ICC_TO_TTL
    THEN 0
    ELSE 1 + FromCardAtEnd(SubSeq(items, 1, Len(items) - 1))

\* C22: a byte is consumed in RESPONSE_DATA only while fewer than Licc response
\* bytes have been consumed, and the state becomes RESPONSE_STATUS with the
\* Licc-th of them: exactly Licc bytes are consumed in RESPONSE_DATA, none
\* when Licc = 0.
C22_ResponseDataCount ==
  [][ (Consumes /\ state = STATE_RESPONSE_DATA) =>
        LET n == FromCardAtEnd(mEmvItems) - 1 IN
        /\ n < currCommand.Licc
        /\ state' = IF n + 1 = currCommand.Licc
                      THEN STATE_RESPONSE_STATUS ELSE STATE_RESPONSE_DATA ]_vars

\* C23: RESPONSE_STATUS consumes two bytes per status word, whatever their
\* values: the first becomes SW1 and leaves the state waiting for the second,
\* the second becomes SW2 and the outcome is decided on the two: 90 00 emits the
\* CommandMessage with that status word, 6C xx and 61 xx re-enter COMMAND_CLA
\* with Licc = xx, and no third byte is consumed in the state.
C23_StatusWordTwoBytes ==
  [][ (Consumes /\ state = STATE_RESPONSE_STATUS) =>
        /\ statusBytes < 2
        /\ statusBytes = 0 =>
             /\ currCommand'.Sw1 = currByte
             /\ state' = STATE_RESPONSE_STATUS
        /\ statusBytes = 1 =>
             IF currCommand.Sw1 = Hex(9, 0) /\ currByte = 0
               THEN /\ state' = STATE_COMMAND_CLA
                    /\ \E i \in 1..Len(Appended) :
                         /\ IsCommand(Appended[i])
                         /\ Appended[i].msg.Sw1 = Hex(9, 0)
                         /\ Appended[i].msg.Sw2 = 0
             ELSE IF currCommand.Sw1 \in { Hex(6, 12), Hex(6, 1) }
               THEN /\ state' = STATE_COMMAND_CLA
                    /\ currCommand'.Licc = currByte
             ELSE /\ currCommand'.Sw1 = currCommand.Sw1
                  /\ currCommand'.Sw2 = currByte ]_vars

\* the scenarios whose capture is, after the ATR of a direct-convention card,
\* one whole exchange that the card answers with 6C k or 61 k before 90 00
ReissueIds ==
  { id \in IntactIds :
      /\ ScenarioTable[id].convention = EmvLogicConvention_Auto
      /\ \E k \in 0..MaxData :
           \/ ScenarioTable[id].script = Atr(Direct, 1) \o Case2(Direct, k)
           \/ \E n \in 0..1 :
                ScenarioTable[id].script = Atr(Direct, 1) \o Case4(Direct, n, k) }

\* the step that consumes the second byte of a status word whose first byte is
\* 0x6C or 0x61
ReissueStatus ==
  /\ Consumes /\ state = STATE_RESPONSE_STATUS /\ statusBytes = 1
  /\ currCommand.Sw1 \in { Hex(6, 12), Hex(6, 1) }

\* C24: the second byte of a status word 6C xx (61 xx) sets Case 2 (4) and
\* Licc = xx, resets SW1 and SW2 to 0xFF and returns to COMMAND_CLA with the
\* direction terminal to ICC, and appends no CommandMessage; a pass over a
\* whole such exchange ends with exactly one CommandMessage, whose start index
\* is the start bit of the CLA byte of the original command.
C24_ReissueKeepsCommand ==
  /\ [][ ReissueStatus =>
           /\ currCommand'.Case = IF currCommand.Sw1 = Hex(6, 12) THEN 2 ELSE 4
           /\ currCommand'.Licc = currByte
           /\ currCommand'.Sw1 = 255 /\ currCommand'.Sw2 = 255
           /\ state' = STATE_COMMAND_CLA
           /\ dataDirection' = TTL_TO_ICC
           /\ currCommandStartBitIdx' = currCommandStartBitIdx
           /\ \A i \in 1..Len(Appended) : ~ IsCommand(Appended[i]) ]_vars
  /\ [] ( (Returned /\ Decoding /\ RateOk /\ capture \in ReissueIds) =>
            /\ Cardinality(Where(mEmvItems, IsCommand)) = 1
            /\ \A i \in Where(mEmvItems, IsCommand) :
                 mEmvItems[i].startIdx = Buffers.chars[6].start )

\* the step that consumes the second byte of the status word 90 00
Completes ==
  /\ Consumes /\ state = STATE_RESPONSE_STATUS /\ statusBytes = 1
  /\ currCommand.Sw1 = Hex(9, 0) /\ currByte = 0

\* C25: the byte that completes the status word 90 00 appends exactly one
\* CommandMessage: with Case 1 if the command saw no 6C/61 status and its P3
\* is 0, Case 3 if it saw none and P3 is not 0, and the Case it has (2 or 4)
\* otherwise; the command in progress is back at its initial values, the
\* direction is terminal to ICC and the state is COMMAND_CLA.
C25_CompletedCase ==
  [][ Completes =>
        /\ Cardinality(Where(Appended, IsCommand)) = 1
        /\ \A i \in Where(Appended, IsCommand) :
             /\ Appended[i].msg.Case =
                  IF currCommand.Case # 0 THEN currCommand.Case
                  ELSE IF currCommand.P3 = 0 THEN 1 ELSE 3
             /\ Appended[i].msg.Sw1 = Hex(9, 0) /\ Appended[i].msg.Sw2 = 0
        /\ currCommand.Case \in { 0, 2, 4 }
        /\ currCommand' = EmvCommandMessage
        /\ dataDirection' = TTL_TO_ICC
        /\ state' = STATE_COMMAND_CLA ]_vars

\* a command with command data has been completed as Case 3 and the analyzer
\* waits for the next CLA
C25_Witness ==
  /\ pc = "loop" /\ state = STATE_COMMAND_CLA
  /\ currCommand = EmvCommandMessage /\ dataDirection = TTL_TO_ICC
  /\ Len(mEmvItems) >= 2
  /\ IsCommand(mEmvItems[Len(mEmvItems) - 1])
  /\ mEmvItems[Len(mEmvItems) - 1].msg.Case = 3
  /\ mEmvItems[Len(mEmvItems) - 1].msg.P3 > 0

\* the scenarios whose capture is, after the ATR, one whole exchange answered
\* 6C k with k >= 1, re-issued with P3 = k and answered with the re-issued
\* INS, k bytes and 90 00
Case2Ids ==
  [ k \in 1..MaxData |->
      { id \in ScenarioIds :
          LET sc == ScenarioTable[id] IN
          /\ sc.convention = EmvLogicConvention_Auto
          /\ sc.capture = Record(sc.script, sc.capture.spe)
          /\ \/ sc.script = Atr(Direct, 1) \o Case2(Direct, k)
             \/ k = 1 /\ sc.fault.kind = "reissue" } ]

\* C26: a pass that returns from an exchange answered 6C L (L >= 1), re-issued
\* with P3 = L and answered with the re-issued INS, L bytes and 90 00, has no
\* error item and exactly one CommandMessage, with Case 2 and Licc L; a byte
\* other than Licc consumed as P3 of the re-issued header appends only a
\* generic error with that byte and moves to DONE.
C26_Case2Exchange ==
  /\ [] ( \A k \in 1..MaxData :
            (Returned /\ Decoding /\ RateOk /\ capture \in Case2Ids[k]) =>
              /\ Where(mEmvItems, IsError) = {}
              /\ Cardinality(Where(mEmvItems, IsCommand)) = 1
              /\ \A i \in Where(mEmvItems, IsCommand) :
                   mEmvItems[i].msg.Case = 2 /\ mEmvItems[i].msg.Licc = k )
  /\ [][ ( /\ Consumes /\ state = STATE_COMMAND_P3
            /\ currCommand.Case = 2 /\ currCommand.Licc >= 1 ) =>
            IF currByte = currCommand.Licc
              THEN /\ state' = STATE_RESPONSE_INS
                   /\ Where(Appended, IsError) = {}
              ELSE /\ Len(Appended) = 1
                   /\ Appended[1].type = TYPE_ERROR_GENERIC
                   /\ Appended[1].value = currByte
                   /\ Appended[1].startIdx = startBitIdx
                   /\ state' = STATE_DONE ]_vars

\* the re-issued header carried P3 = 02 after 6C 01: the pass has ended on
\* the generic error for that byte
C26_WitnessMismatch ==
  /\ Returned /\ state = STATE_DONE
  /\ currCommand.Case = 2 /\ currCommand.Licc = 1
  /\ Len(mEmvItems) >= 1
  /\ mEmvItems[Len(mEmvItems)].type = TYPE_ERROR_GENERIC
  /\ mEmvItems[Len(mEmvItems)].value = 2

\* the re-issued command was READ BINARY: the pass has returned its one
\* CommandMessage, with Case 2
C26_Witness ==
  /\ Returned /\ Sc.fault.kind = "reissue"
  /\ \E i \in Where(mEmvItems, IsCommand) :
       mEmvItems[i].msg.Case = 2 /\ mEmvItems[i].msg.Licc = 1

\* the header and the command data of the command whose CLA has its start bit
\* at sample start, read off the CharacterFrames of the list: five header
\* bytes and, when P3 > 0, the procedure byte and P3 bytes of data
HeaderAt(items, start) ==
  LET j == CHOOSE j \in 1..Len(items) : IsFrame(items[j]) /\ items[j].startIdx = start
      p3 == items[j + 4].value
  IN  [ Cla |-> items[j].value, Ins |-> items[j + 1].value, P1 |-> items[j + 2].value,
        P2 |-> items[j + 3].value, P3 |-> p3,
        Data |-> [ d \in 1..p3 |-> items[j + 5 + d].value ] ]

\* the command carries the header and the data of the command that starts at
\* sample start
Carries(cmd, items, start) ==
  /\ \E j \in 1..Len(items) : IsFrame(items[j]) /\ items[j].startIdx = start
  /\ [ Cla |-> cmd.Cla, Ins |-> cmd.Ins, P1 |-> cmd.P1, P2 |-> cmd.P2, P3 |-> cmd.P3,
       Data |-> cmd.Data ] = HeaderAt(items, start)

HeaderStates ==
  << STATE_COMMAND_CLA, STATE_COMMAND_INS, STATE_COMMAND_P1, STATE_COMMAND_P2,
     STATE_COMMAND_P3 >>

\* C27: a byte consumed in COMMAND_CLA .. COMMAND_P3 during a 0x61 re-entry
\* leaves the command in progress as it is, and when it is the expected one
\* (00, C0, 00, 00, Licc) the state moves on, from COMMAND_P3 to RESPONSE_C0;
\* in RESPONSE_C0 the command in progress still has the CLA, INS, P1, P2, P3
\* and command data of the original command, and so does every CommandMessage
\* with Case 4.
C27_ReentryKeepsHeader ==
  /\ [][ \A h \in 1..5 :
           (Consumes /\ state = HeaderStates[h] /\ currCommand.Case = 4) =>
             /\ currCommand' = currCommand
             /\ currByte = << 0, Hex(12, 0), 0, 0, currCommand.Licc >>[h] =>
                  /\ state' = IF h = 5 THEN STATE_RESPONSE_C0 ELSE HeaderStates[h + 1]
                  /\ Where(Appended, IsError) = {} ]_vars
  /\ [] ( (pc = "loop" /\ state = STATE_RESPONSE_C0) =>
            /\ currCommand.Case = 4
            /\ Carries(currCommand, mEmvItems, currCommandStartBitIdx) )
  /\ [] ( \A i \in Where(mEmvItems, IsCommand) :
            mEmvItems[i].msg.Case = 4 =>
              Carries(mEmvItems[i].msg, mEmvItems, mEmvItems[i].startIdx) )

\* the header of a 0x61 re-entry has been consumed after a SELECT with command
\* data: the command in progress is still the SELECT
C27_Witness ==
  /\ pc = "loop" /\ state = STATE_RESPONSE_C0
  /\ currCommand.Case = 4 /\ currCommand.Licc >= 1
  /\ currCommand.Ins = Hex(10, 4) /\ currCommand.P1 = 4 /\ currCommand.P3 >= 1
  /\ mEmvItems[Len(mEmvItems) - 3].value = Hex(12, 0)

\* the number of items at the end of the list that the terminal sent: in
\* COMMAND_DATA, the frames of the command-data bytes consumed so far
RECURSIVE FromTerminalAtEnd(_)
FromTerminalAtEnd(items) ==
  IF items = << >> \/ items[Len(items)].dataDirection # TTL_TO_ICC
    THEN 0
    ELSE 1 + FromTerminalAtEnd(SubSeq(items, 1, Len(items) - 1))

C29_T0Byte ==
  [][ (Consumes /\ state = STATE_ATR_T0) =>
        /\ Len(Appended) = 1
        /\ Appended[1].startIdx = startBitIdx
        /\ IF currByte \div 16 = 6
             THEN /\ mDeterminedProtocol' = EmvProtocol_T0
                  /\ numHistoricalBytes' = currByte % 16
                  /\ ICCToTermGuardTime' = 12
                  /\ state' = STATE_ATR_TB1
                  /\ IsFrame(Appended[1])
                  /\ Appended[1].label = "T0" /\ Appended[1].value = currByte
           ELSE IF currByte \div 16 = 14
             THEN /\ Appended[1].type = TYPE_ERROR_PROTOCOL
                  /\ state' = STATE_DONE
           ELSE /\ Appended[1].type = TYPE_ERROR_T0
                /\ Appended[1].value = currByte
                /\ state' = STATE_DONE ]_vars

\* the T0 of a T=1 card has been consumed: the pass has ended on the
\* unsupported-protocol error raised at T0's start bit, after the frame of TS
C29_Witness ==
  /\ Returned /\ state = STATE_DONE
  /\ Len(mEmvItems) = 2
  /\ IsFrame(mEmvItems[1]) /\ mEmvItems[1].label = "TS"
  /\ mEmvItems[2].type = TYPE_ERROR_PROTOCOL
  /\ mEmvItems[2].startIdx > mEmvItems[1].startIdx

\* C30: while the loop is in ATR_TB1 the determined protocol is T0; a byte
\* 0x00 consumed there moves to ATR_TC1 and gets the CharacterFrame "TB1", any
\* other byte appends only the invalid-TB1 error carrying the byte and moves
\* to DONE; DONE is never reached from ATR_TB1 by a byte 0x00.
C30_Tb1Byte ==
  /\ [] ( (pc = "loop" /\ state = STATE_ATR_TB1) =>
            mDeterminedProtocol = EmvProtocol_T0 )
  /\ [][ (Consumes /\ state = STATE_ATR_TB1) =>
           /\ Len(Appended) = 1
           /\ Appended[1].startIdx = startBitIdx
           /\ IF currByte = 0
                THEN /\ state' = STATE_ATR_TC1
                     /\ IsFrame(Appended[1])
                     /\ Appended[1].label = "TB1" /\ Appended[1].value = 0
                ELSE /\ Appended[1].type = TYPE_ERROR_TB1
                     /\ Appended[1].value = currByte
                     /\ state' = STATE_DONE ]_vars

\* a TB1 of 0xFF has been consumed after an auto-detected T0: the pass has
\* ended on the invalid-TB1 error carrying 0xFF, after the frames of TS and T0
C30_Witness ==
  /\ Returned /\ state = STATE_DONE
  /\ mDeterminedProtocol = EmvProtocol_T0
  /\ Len(mEmvItems) = 3
  /\ mEmvItems[2].label = "T0"
  /\ mEmvItems[3].type = TYPE_ERROR_TB1 /\ mEmvItems[3].value = Hex(15, 15)

\* the step from the head of analyze() into its loop
EntersLoop == pc = "idle" /\ pc' = "loop"

\* C31: a pass whose sample rate passes the check enters the loop, under the
\* convention Auto, in ATR_TS with the configured protocol reset to Auto, and
\* the protocol T0 is then determined only with a T0 frame in the list; under
\* a fixed convention with the protocol Auto it enters in ATR_T0 and the first
\* item of the pass is for the first character of the capture, a frame
\* labelled T0 unless it is an error; under a fixed convention with the
\* protocol T0 it enters in ATR_TB1 with guard time 12 ETU and no historical
\* bytes.
C31_InitialState ==
  /\ [][ (EntersLoop /\ RateOk) =>
           IF mLogicConvention = EmvLogicConvention_Auto
             THEN /\ state' = STATE_ATR_TS
                  /\ mProtocol' = EmvProtocol_Auto
                  /\ mDeterminedProtocol' = EmvProtocol_Auto
           ELSE IF mProtocol = EmvProtocol_Auto
             THEN /\ state' = STATE_ATR_T0
                  /\ mDeterminedLogicConvention' = mLogicConvention
           ELSE IF mProtocol = EmvProtocol_T0
             THEN /\ state' = STATE_ATR_TB1
                  /\ ICCToTermGuardTime' = 12
                  /\ numHistoricalBytes' = 0
                  /\ mDeterminedProtocol' = EmvProtocol_T0
           ELSE state' = STATE_DONE ]_vars
  /\ [] ( ( /\ Started /\ Decoding /\ RateOk
            /\ mLogicConvention = EmvLogicConvention_Auto
            /\ mDeterminedProtocol = EmvProtocol_T0 ) =>
            \E i \in Where(mEmvItems, IsFrame) : mEmvItems[i].label = "T0" )
  /\ [] ( ( /\ Started /\ Decoding /\ RateOk
            /\ mLogicConvention # EmvLogicConvention_Auto
            /\ mProtocol = EmvProtocol_Auto
            /\ mEmvItems # << >> ) =>
            /\ mEmvItems[1].startIdx = Buffers.chars[1].start
            /\ IsFrame(mEmvItems[1]) => mEmvItems[1].label = "T0" )

\* the protocol T0 was configured with the convention Auto: the pass is at
\* its first sample, in ATR_TS, and the configured protocol is Auto
C31_Witness ==
  /\ pc = "loop" /\ pos = 0 /\ state = STATE_ATR_TS
  /\ mLogicConvention = EmvLogicConvention_Auto
  /\ Sc.protocol = EmvProtocol_T0
  /\ mProtocol = EmvProtocol_Auto

Determined ==
  { EmvLogicConvention_DirectConvention, EmvLogicConvention_InverseConvention }

\* C32: during a pass, in every state but ATR_TS and DONE the determined
\* convention is Direct or Inverse, and in every state but ATR_TS, ATR_T0 and
\* DONE the determined protocol is T0; no step of the loop changes a
\* determined convention that is Direct or Inverse, or a determined protocol
\* that is T0.
C32_DeterminedOnce ==
  /\ [] ( (pc = "loop" /\ state \notin { STATE_ATR_TS, STATE_DONE }) =>
            mDeterminedLogicConvention \in Determined )
  /\ [] ( (pc = "loop" /\ state \notin { STATE_ATR_TS, STATE_ATR_T0, STATE_DONE }) =>
            mDeterminedProtocol = EmvProtocol_T0 )
  /\ [][ (pc = "loop" /\ pc' # "idle") =>
           /\ mDeterminedLogicConvention \in Determined =>
                mDeterminedLogicConvention' = mDeterminedLogicConvention
           /\ mDeterminedProtocol = EmvProtocol_T0 =>
                mDeterminedProtocol' = mDeterminedProtocol ]_vars

\* the header of a command is being read from a card whose direct convention
\* and protocol T0 were both determined from its ATR
C32_Witness ==
  /\ pc = "loop" /\ state = STATE_COMMAND_P3
  /\ mLogicConvention = EmvLogicConvention_Auto
  /\ mProtocol = EmvProtocol_Auto
  /\ mDeterminedLogicConvention = EmvLogicConvention_DirectConvention
  /\ mDeterminedProtocol = EmvProtocol_T0

\* an iteration of the loop with RESET 1 and a character in progress
InCharacter ==
  /\ pc = "loop" /\ pos' = pos + 1
  /\ RstAt(Buffers, pos) = 1
  /\ startBitIdx # -1

\* C33: with a character in progress, a position outside the tolerance window
\* of the bit that is due changes nothing of the decoder; a position within it
\* is the first one of the window at which RESET is 1, and the bit sampled
\* there is done with: a data bit gives way to the next bit, and the parity
\* bit ends the character or the pass, so that no bit is sampled twice.
C33_EachBitOnce ==
  [][ InCharacter =>
        IF InTolerance(pos, startBitIdx, bitRank) /\ bitRank \in 1..9
          THEN /\ \A q \in startBitIdx..(pos - 1) :
                    InTolerance(q, startBitIdx, bitRank) => RstAt(Buffers, q) = 0
               /\ IF bitRank <= 8
                    THEN bitRank' = bitRank + 1 /\ startBitIdx' = startBitIdx
                    ELSE startBitIdx' = -1 \/ state' = STATE_DONE
          ELSE UNCHANGED << byteVars, lastStartBitIdx, startBitIdx, nextStartBitPos,
                            bitRank, expectDirectionSwitch >> ]_vars

\* an iteration of the loop that samples data bit bitRank of a character
SamplesDataBit ==
  /\ InCharacter
  /\ bitRank \in 1..8
  /\ InTolerance(pos, startBitIdx, bitRank)

\* C34: a character starts from the byte 0, and data bit k adds the weight of
\* its level to the byte: level << (k-1) while the convention is Direct or
\* still Auto, (1 - level) << (8-k) at Inverse convention. The bits sampled so
\* far are the only ones set, so that the byte at the parity moment is the sum
\* of the eight weights, and the byte is 0 again once the character's
\* CharacterFrame is emitted.
C34_ByteAssembly ==
  /\ [](pc = "loop" /\ startBitIdx = -1 => currByte = 0)
  /\ [](pc = "loop" /\ startBitIdx # -1 /\ bitRank \in 1..9 =>
          IF mDeterminedLogicConvention = EmvLogicConvention_InverseConvention
            THEN currByte \in 0..255 /\ currByte % (2 ^ (9 - bitRank)) = 0
            ELSE currByte \in 0..(2 ^ (bitRank - 1) - 1))
  /\ [][ SamplesDataBit =>
           currByte' = currByte +
             (IF mDeterminedLogicConvention = EmvLogicConvention_InverseConvention
                THEN (1 - IoAt(Buffers, pos)) * 2 ^ (8 - bitRank)
                ELSE IoAt(Buffers, pos) * 2 ^ (bitRank - 1)) ]_vars
  /\ [][ pc = "loop" /\ Len(mEmvItems') > Len(mEmvItems)
           /\ IsFrame(mEmvItems'[Len(mEmvItems')])
           => currByte' = 0 /\ startBitIdx' = -1 ]_vars

\* the eight data bits of an inverse convention character are sampled: the
\* levels H L L H H H H H, in the order of their arrival, of the byte 0x60
\* (most significant bit first, low is 1)
C34_Witness ==
  /\ pc = "loop"
  /\ mDeterminedLogicConvention = EmvLogicConvention_InverseConvention
  /\ state = STATE_ATR_T0
  /\ startBitIdx # -1 /\ bitRank = 9
  /\ currByte = 96

\* an iteration of the loop that samples the parity bit of a character
SamplesParityBit ==
  /\ InCharacter
  /\ bitRank = 9
  /\ InTolerance(pos, startBitIdx, bitRank)

\* the position at which data bit k of the character in progress was sampled:
\* the first one of its tolerance window at which RESET is 1
SampledAt(k) ==
  CHOOSE p \in startBitIdx..pos :
    /\ InTolerance(p, startBitIdx, k) /\ RstAt(Buffers, p) = 1
    /\ \A q \in startBitIdx..(p - 1) :
         ~ (InTolerance(q, startBitIdx, k) /\ RstAt(Buffers, q) = 1)

\* the number of high levels among the nine sampled moments of the character
\* whose parity bit is sampled at pos
HighSamples ==
  Sum8([ k \in 1..8 |-> IoAt(Buffers, SampledAt(k)) ]) + IoAt(Buffers, pos)

\* the iteration appends a parity error
ParityRejected ==
  /\ Len(mEmvItems') = Len(mEmvItems) + 1
  /\ mEmvItems'[Len(mEmvItems')].type = TYPE_ERROR_PARITY

\* C35: at the parity moment the character is rejected with a parity error
\* exactly when the parity level plus the number of set bits of the assembled
\* byte is odd, and that sum is even exactly when the number of high levels
\* among the nine sampled moments is even, at Direct, Auto and Inverse
\* convention alike.
C35_ParityByHighSamples ==
  [][ SamplesParityBit =>
        LET even == (IoAt(Buffers, pos) + PopCount(currByte)) % 2 = 0
        IN  /\ ParityRejected <=> ~ even
            /\ even <=> HighSamples % 2 = 0 ]_vars

\* a character sampled at Inverse convention has been accepted: the byte 0x60,
\* seven of whose nine moments are low
C35_Witness ==
  /\ mDeterminedLogicConvention = EmvLogicConvention_InverseConvention
  /\ Len(mEmvItems) >= 1
  /\ IsFrame(mEmvItems[Len(mEmvItems)]) /\ mEmvItems[Len(mEmvItems)].value = 96

\* the RESET buffer holds 0 at the sample p of the capture
ResetReads0(p) ==
  \/ p < Buffers.rstHigh
  \/ Buffers.rstLow[1] <= p /\ p < Buffers.rstLow[2]

\* C36: an iteration of the loop at a position where RESET reads 0 changes the
\* position and nothing else: no start bit is recognized, no bit is sampled, no
\* item is appended, the state stays, and a character in progress keeps its
\* start index, its bit rank and its partial byte.
C36_ResetLowStepIdle ==
  [][ pc = "loop" /\ pos' = pos + 1 /\ ResetReads0(pos) =>
        UNCHANGED << memberVars, deviceVars, byteVars, lastStartBitIdx, startBitIdx,
                     nextStartBitPos, bitRank, expectDirectionSwitch, currIo, pc >> ]_vars

\* RESET has dropped while bit 3 of TS was due: the iterations at the
\* positions of the drop have left the character at its third bit, with the
\* two bits sampled before
C36_Witness ==
  /\ pc = "loop"
  /\ Buffers.rstLow[1] < pos /\ pos <= Buffers.rstLow[2]
  /\ ResetReads0(pos - 1)
  /\ InTolerance(pos - 1, startBitIdx, bitRank)
  /\ startBitIdx # -1 /\ bitRank = 3 /\ currByte = 3

\* the length of the shorter of the two buffers
MinSize ==
  IF Buffers.ioSize <= Buffers.rstSize THEN Buffers.ioSize ELSE Buffers.rstSize

\* the loop is at its end: the end of either buffer or the state DONE
AtLoopEnd == state = STATE_DONE \/ pos >= MinSize

\* C37: the loop starts at position 0, every iteration advances the position
\* by exactly one, and the position never passes the end of the shorter
\* buffer, so that a pass makes at most min(len(I/O), len(RESET)) iterations.
\* At the end of either buffer, or in state DONE, no iteration is possible and
\* the pass returns; before that, an iteration is, so that the loop never
\* stalls.
C37_LoopBounded ==
  /\ [](pc = "loop" => pos \in 0..MinSize)
  /\ [](pc = "loop" => IF AtLoopEnd THEN ENABLED Return /\ ~ ENABLED Step
                                    ELSE ENABLED Step /\ ~ ENABLED Return)
  /\ [][ pc # "loop" /\ pc' = "loop" => pos' = 0 ]_vars
  /\ [][ pc = "loop" =>
           \/ ~ AtLoopEnd /\ pos' = pos + 1 /\ pc' # "idle"
           \/ AtLoopEnd /\ pos' = pos /\ pc' = "idle" ]_vars

\* a pass over a RESET buffer half as long as the I/O buffer has returned
\* from the end of the RESET buffer, before any error
C37_Witness ==
  /\ Returned
  /\ 0 < Buffers.rstSize /\ Buffers.rstSize < Buffers.ioSize
  /\ pos = Buffers.rstSize
  /\ state # STATE_DONE

\* C38: a CommandMessage is appended only by the byte 00 that completes the
\* status word 90 00, with the CLA and INS the command in progress holds at
\* that moment, and its label is "SELECT" exactly when they are 00 A4,
\* "READ RECORD" exactly when they are 00 B2, and "UNKNOWN" in every other case.
C38_CommandLabel ==
  /\ [](\A i \in Where(mEmvItems, IsCommand) :
          LET m == mEmvItems[i].msg IN
          /\ m.Label = "SELECT" <=> (m.Cla = 0 /\ m.Ins = Hex(10, 4))
          /\ m.Label = "READ RECORD" <=> (m.Cla = 0 /\ m.Ins = Hex(11, 2))
          /\ m.Label = "UNKNOWN" <=> ~ (m.Cla = 0 /\ m.Ins \in { Hex(10, 4), Hex(11, 2) }))
  /\ [][ \A i \in 1..Len(Appended) :
           IsCommand(Appended[i]) =>
             /\ Consumes /\ state = STATE_RESPONSE_STATUS
             /\ currCommand.Sw1 = Hex(9, 0) /\ currByte = 0
             /\ Appended[i].msg.Cla = currCommand.Cla
             /\ Appended[i].msg.Ins = currCommand.Ins ]_vars

\* a READ RECORD answered 6C 01 and issued again with INS B0 has been
\* completed: the command holds the INS of the second header and is labelled
\* "UNKNOWN"
C38_Witness ==
  /\ Len(mEmvItems) >= 2
  /\ IsCommand(mEmvItems[Len(mEmvItems) - 1])
  /\ mEmvItems[Len(mEmvItems) - 1].msg.Cla = 0
  /\ mEmvItems[Len(mEmvItems) - 1].msg.Ins = Hex(11, 0)
  /\ mEmvItems[Len(mEmvItems) - 1].msg.Case = 2
  /\ mEmvItems[Len(mEmvItems) - 1].msg.Label = "UNKNOWN"

============================================================================
